---- MODULE Spec2Model ----
(***************************************************************************)
(* Model of the text-extractor job/state coordination layer:               *)
(*   models/application_state.py   ApplicationState (state machine)        *)
(*   controllers/state_manager.py  StateManager (lock, observers)          *)
(*   controllers/thread_coordinator.py  ThreadCoordinator (worker, queue)  *)
(*   controllers/app_controller.py AppController (handlers, poll loop)     *)
(*   extractors/extraction_engine.py  ExtractionEngine.extract             *)
(*   extractors/personal_info_extractor.py  PersonalInfoExtractor          *)
(*                                                                         *)
(* The specifications share the variables:                                 *)
(*   SpecSM     - any sequence of StateManager calls                       *)
(*   SpecShare  - StateManager calls by callers and observers that mutate  *)
(*                the objects they hold                                    *)
(*   SpecEngine - one call of ExtractionEngine.extract                     *)
(*   SpecPersonal - one call of extract_personal_info, page by page        *)
(*   SpecNotify - StateManager mutation methods step by step: the lock,    *)
(*                the observer callbacks, a second thread                  *)
(*   SpecAPI    - ThreadCoordinator calls, the worker thread, the poller   *)
(*   Spec       - the AppController handlers, the worker thread and the    *)
(*                timer-driven poll loop                                   *)
(***************************************************************************)
EXTENDS Integers, Sequences, FiniteSets, TLC

VARIABLES
    state,          \* StateManager._state: the ApplicationState
    observers,      \* StateManager._observers
    last,           \* the last call made on the interactive thread: its name,
                    \* its return value and the snapshots it handed to observers
    is_running,     \* ThreadCoordinator._is_running
    message_queue,  \* ThreadCoordinator._message_queue (FIFO)
    workers,        \* the live worker threads, each at a position of _worker_wrapper
    ui_pc,          \* position of the interactive thread inside the poll
                    \* or inside _notify_observers
    timers,         \* number of pending root.after(100, _poll_worker_messages)
    ghost           \* the ApplicationState of the run in which the message of
                    \* a rejected start_extraction call is never dispatched

vars == <<state, observers, last, is_running, message_queue, workers, ui_pc,
          timers, ghost>>

(***************************************************************************)
(* Bounds of the model.                                                    *)
(***************************************************************************)
MaxDocs == 1        \* longest document list handed to set_documents
MaxErrors == 1      \* error_messages is not grown beyond this length
MaxPending == 2     \* error messages recorded or in flight (direct calls)
MaxTimers == 2      \* pending poll timers

None == "None"

\* Python's True / False as return values
PyBool(b) == IF b THEN "True" ELSE "False"

\* extraction_results = None
NoResults == [kind |-> "none"]

\* line_number = None of an ExtractionMatch (line numbers start at 1)
NoLine == 0

(***************************************************************************)
(* models/keyword.py, models/document.py: the values the state holds.      *)
(***************************************************************************)
\* the keyword texts a user types
KeywordTexts == {"Salary", "salary", "Age"}

\* str.lower() on the words of the model
Lower(text) ==
    CASE text = "Salary" -> "salary"
      [] text = "Age" -> "age"
      [] text = "USD" -> "usd"
      [] OTHER -> text

\* Keyword.from_text(text): __post_init__ fills normalized
Keyword_from_text(text) == [text |-> text, normalized |-> Lower(text)]

\* a validated document (mark_valid), and documents that failed validation
\* with and without an error message (mark_invalid / the dataclass default)
ValidDocument == [is_valid |-> TRUE, error_message |-> None]
DocumentInputs ==
    {ValidDocument,
     [is_valid |-> FALSE, error_message |-> "Corrupted file"],
     [is_valid |-> FALSE, error_message |-> None]}

\* the document lists of length 0..MaxDocs
DocumentLists == UNION {[1..n -> DocumentInputs] : n \in 0..MaxDocs}

(***************************************************************************)
(* models/application_state.py                                             *)
(***************************************************************************)
IDLE == "idle"
FILE_SELECTED == "file_selected"
READY == "ready"
PROCESSING == "processing"
COMPLETE == "complete"
ERROR == "error"
PARTIAL_SUCCESS == "partial_success"

ProcessingStatus ==
    {IDLE, FILE_SELECTED, READY, PROCESSING, COMPLETE, ERROR, PARTIAL_SUCCESS}

\* ApplicationState() with the dataclass defaults
InitialState ==
    [current_documents |-> <<>>,
     active_keywords |-> <<>>,
     processing_status |-> IDLE,
     extraction_results |-> NoResults,
     error_messages |-> <<>>,
     is_processing |-> FALSE]

RECURSIVE SelectSeqBy(_, _)
\* the positions of s, in order, whose element is in the set keep
SelectSeqBy(s, keep) ==
    IF s = <<>> THEN <<>>
    ELSE IF Head(s) \in keep
         THEN <<Head(s)>> \o SelectSeqBy(Tail(s), keep)
         ELSE SelectSeqBy(Tail(s), keep)

\* all(doc.is_valid for doc in docs)
AllValid(docs) == \A i \in DOMAIN docs : docs[i].is_valid

\* can_start_extraction without the is_processing test
can_start_extraction_while_processing(s) ==
    /\ Len(s.current_documents) > 0
    /\ AllValid(s.current_documents)
    /\ Len(s.active_keywords) > 0
    /\ s.processing_status \in {READY, COMPLETE, ERROR, PARTIAL_SUCCESS}

can_start_extraction(s) ==
    LET has_valid_documents ==
            /\ Len(s.current_documents) > 0
            /\ AllValid(s.current_documents)
    IN  /\ has_valid_documents
        /\ Len(s.active_keywords) > 0
        /\ ~s.is_processing
        /\ s.processing_status \in {READY, COMPLETE, ERROR, PARTIAL_SUCCESS}

\* the error messages appended by the loop of set_documents
InvalidDocMessages(documents) ==
    LET bad == SelectSeqBy(documents,
                   {d \in {documents[i] : i \in DOMAIN documents} :
                        ~d.is_valid /\ d.error_message # None})
    IN  [i \in DOMAIN bad |-> bad[i].error_message]

\* set_documents that drops the messages of the invalid documents
set_documents_no_messages(s, documents) ==
    IF Len(documents) > 0 /\ AllValid(documents)
    THEN [s EXCEPT !.current_documents = documents,
                   !.processing_status =
                       IF Len(s.active_keywords) > 0 THEN READY
                       ELSE FILE_SELECTED]
    ELSE [s EXCEPT !.current_documents = documents,
                   !.processing_status = ERROR]

set_documents(s, documents) ==
    LET all_valid == IF Len(documents) > 0 THEN AllValid(documents) ELSE FALSE
    IN  IF all_valid /\ Len(documents) > 0
        THEN [s EXCEPT !.current_documents = documents,
                       !.processing_status =
                           IF Len(s.active_keywords) > 0 THEN READY
                           ELSE FILE_SELECTED]
        ELSE [s EXCEPT !.current_documents = documents,
                       !.processing_status = ERROR,
                       !.error_messages = @ \o InvalidDocMessages(documents)]

set_document(s, document) == set_documents(s, <<document>>)

\* add_keyword without the duplicate check
add_keyword_no_dedup(s, keyword) ==
    LET has_valid_docs ==
            /\ Len(s.current_documents) > 0
            /\ AllValid(s.current_documents)
    IN  [s EXCEPT !.active_keywords = Append(@, keyword),
                  !.processing_status =
                      IF has_valid_docs /\ @ = FILE_SELECTED THEN READY
                      ELSE @]

\* add_keyword that leaves the status as it is
add_keyword_keeps_status(s, keyword) ==
    IF ~(\E i \in DOMAIN s.active_keywords :
            s.active_keywords[i].normalized = keyword.normalized)
    THEN [s EXCEPT !.active_keywords = Append(@, keyword)]
    ELSE s

\* add_keyword that sets ready whatever the status was
add_keyword_ready_from_any(s, keyword) ==
    IF ~(\E i \in DOMAIN s.active_keywords :
            s.active_keywords[i].normalized = keyword.normalized)
    THEN LET has_valid_docs ==
                 /\ Len(s.current_documents) > 0
                 /\ AllValid(s.current_documents)
         IN  [s EXCEPT !.active_keywords = Append(@, keyword),
                       !.processing_status =
                           IF has_valid_docs THEN READY ELSE @]
    ELSE s

add_keyword(s, keyword) ==
    IF ~(\E i \in DOMAIN s.active_keywords :
            s.active_keywords[i].normalized = keyword.normalized)
    THEN LET has_valid_docs ==
                 /\ Len(s.current_documents) > 0
                 /\ AllValid(s.current_documents)
         IN  [s EXCEPT !.active_keywords = Append(@, keyword),
                       !.processing_status =
                           IF has_valid_docs /\ @ = FILE_SELECTED THEN READY
                           ELSE @]
    ELSE s

\* remove_keyword that resets the status even when keywords remain
remove_keyword_always_resets(s, keyword_text) ==
    LET keyword_lower == Lower(keyword_text)
        kept == SelectSeqBy(s.active_keywords,
                    {k \in {s.active_keywords[i] : i \in DOMAIN s.active_keywords} :
                         k.normalized # keyword_lower})
    IN  [s EXCEPT !.active_keywords = kept,
                  !.processing_status =
                      IF Len(s.current_documents) > 0 THEN FILE_SELECTED
                      ELSE IDLE]

remove_keyword(s, keyword_text) ==
    LET keyword_lower == Lower(keyword_text)
        kept == SelectSeqBy(s.active_keywords,
                    {k \in {s.active_keywords[i] : i \in DOMAIN s.active_keywords} :
                         k.normalized # keyword_lower})
    IN  [s EXCEPT !.active_keywords = kept,
                  !.processing_status =
                      IF Len(kept) = 0
                      THEN IF Len(s.current_documents) > 0 THEN FILE_SELECTED
                           ELSE IDLE
                      ELSE @]

clear_keywords(s) ==
    [s EXCEPT !.active_keywords = <<>>,
              !.processing_status =
                  IF Len(s.current_documents) > 0 THEN FILE_SELECTED ELSE IDLE]

start_processing(s) ==
    [s EXCEPT !.is_processing = TRUE,
              !.processing_status = PROCESSING,
              !.error_messages = <<>>,
              !.extraction_results = NoResults]

\* ExtractionResults.has_errors
has_errors(results) == Len(results.errors) > 0

\* BatchExtractionResults.has_warnings / has_results
has_warnings(results) == Len(results.warnings) > 0
has_results(results) == Len(results.results) > 0

\* the status complete_processing derives from the results
ResultStatus(results) ==
    IF results.kind = "batch"
    THEN IF has_warnings(results) /\ ~has_results(results) THEN ERROR
         ELSE IF has_warnings(results) THEN PARTIAL_SUCCESS
         ELSE COMPLETE
    ELSE IF has_errors(results)
         THEN IF \E i \in DOMAIN results.matches :
                     results.matches[i].status = "found"
              THEN PARTIAL_SUCCESS
              ELSE ERROR
         ELSE COMPLETE

\* complete_processing that leaves is_processing set
complete_processing_still_processing(s, results) ==
    [s EXCEPT !.extraction_results = results,
              !.processing_status = ResultStatus(results)]

\* complete_processing that reports a keyword without a value as a failure
complete_processing_partial_on_not_found(s, results) ==
    [s EXCEPT !.is_processing = FALSE,
              !.extraction_results = results,
              !.processing_status =
                  IF results.kind = "batch"
                  THEN IF has_warnings(results) THEN PARTIAL_SUCCESS ELSE COMPLETE
                  ELSE IF \E i \in DOMAIN results.matches :
                              results.matches[i].status = "not_found"
                       THEN PARTIAL_SUCCESS
                       ELSE IF has_errors(results) THEN ERROR ELSE COMPLETE]

\* complete_processing that counts any match, found or not, as a success
complete_processing_any_match(s, results) ==
    [s EXCEPT !.is_processing = FALSE,
              !.extraction_results = results,
              !.processing_status =
                  IF results.kind = "batch"
                  THEN IF has_warnings(results) THEN PARTIAL_SUCCESS ELSE COMPLETE
                  ELSE IF has_errors(results)
                       THEN IF Len(results.matches) > 0 THEN PARTIAL_SUCCESS
                            ELSE ERROR
                       ELSE COMPLETE]

complete_processing(s, results) ==
    [s EXCEPT !.is_processing = FALSE,
              !.extraction_results = results,
              !.processing_status = ResultStatus(results)]

fail_processing(s, error_message) ==
    [s EXCEPT !.is_processing = FALSE,
              !.processing_status = ERROR,
              !.error_messages = Append(@, error_message)]

reset(s) == InitialState

(***************************************************************************)
(* extractors/: the engine that builds the results a job returns.  A text  *)
(* (a line, a keyword inside the engine, a value) is the sequence of its   *)
(* characters, each a one-character string.                                *)
(***************************************************************************)
Digits == {"0", "1", "2", "3", "4", "5", "6", "7", "8", "9"}
UpperLetters == {"A", "B", "D", "S", "U"}
LowerLetters == {"a", "b", "d", "e", "g", "l", "n", "o", "r", "s", "u", "y"}

\* \w of the re module
IsWordChar(c) == c \in Digits \cup UpperLetters \cup LowerLetters \cup {"_"}

\* str.lower() on one character
LowerChar(c) ==
    CASE c = "A" -> "a"
      [] c = "B" -> "b"
      [] c = "D" -> "d"
      [] c = "S" -> "s"
      [] c = "U" -> "u"
      [] OTHER -> c

\* str.lower() on a text
str_lower(t) == [i \in DOMAIN t |-> LowerChar(t[i])]

\* the characters of the keyword texts of the model
Chars(text) ==
    CASE text = "Salary" -> <<"S", "a", "l", "a", "r", "y">>
      [] text = "salary" -> <<"s", "a", "l", "a", "r", "y">>
      [] text = "Age" -> <<"A", "g", "e">>
      [] text = "Bonus" -> <<"B", "o", "n", "u", "s">>

RECURSIVE lstrip(_)
lstrip(t) == IF t # <<>> /\ Head(t) = " " THEN lstrip(Tail(t)) ELSE t

RECURSIVE rstrip(_)
rstrip(t) ==
    IF t # <<>> /\ t[Len(t)] = " " THEN rstrip(SubSeq(t, 1, Len(t) - 1))
    ELSE t

\* str.strip()
strip(t) == rstrip(lstrip(t))

RECURSIVE Concat(_)
\* the concatenation of a sequence of sequences
Concat(ss) == IF ss = <<>> THEN <<>> ELSE Head(ss) \o Concat(Tail(ss))

\* \b between t[p] and t[p + 1], for p in 0..Len(t)
word_boundary(t, p) ==
    LET before == p >= 1 /\ IsWordChar(t[p])
        after == p < Len(t) /\ IsWordChar(t[p + 1])
    IN  before # after

NoMatch == [start |-> -1, end |-> -1]

\* re.compile(r'\b' + re.escape(keyword) + r'\b', re.IGNORECASE).search(t):
\* the leftmost occurrence of the keyword between two word boundaries, as
\* the positions before its first and after its last character
pattern_search(keyword, t) ==
    LET starts ==
            {p \in 0..(Len(t) - Len(keyword)) :
                /\ word_boundary(t, p)
                /\ \A i \in 1..Len(keyword) :
                       LowerChar(t[p + i]) = LowerChar(keyword[i])
                /\ word_boundary(t, p + Len(keyword))}
    IN  IF starts = {} THEN NoMatch
        ELSE LET p == CHOOSE p \in starts : \A q \in starts : p <= q
             IN  [start |-> p, end |-> p + Len(keyword)]

IsDigitAt(t, i) == i \in 1..Len(t) /\ t[i] \in Digits

\* the ways \d{1,3}(?:,\d{3})*(?:\.\d+)? matches at position p of t: d
\* leading digits, g groups of a comma and three digits, and f digits
\* after a decimal point (f = 0: no decimal part)
number_shapes(t, p) ==
    {m \in [d : 1..3, g : 0..(Len(t) \div 4), f : 0..Len(t)] :
        LET e == p + m.d + 4 * m.g
        IN  /\ \A i \in 1..m.d : IsDigitAt(t, p + i)
            /\ \A k \in 1..m.g :
                   /\ p + m.d + 4 * k <= Len(t)
                   /\ t[p + m.d + 4 * (k - 1) + 1] = ","
                   /\ \A i \in 2..4 : IsDigitAt(t, p + m.d + 4 * (k - 1) + i)
            /\ m.f > 0 =>
                   /\ e + 1 <= Len(t)
                   /\ t[e + 1] = "."
                   /\ \A i \in 1..m.f : IsDigitAt(t, e + 1 + i)}

\* the position after the last character of a match of that shape
shape_end(p, m) == p + m.d + 4 * m.g + (IF m.f > 0 THEN m.f + 1 ELSE 0)

\* the shape the regex engine finds first: each quantifier is greedy, so it
\* tries more leading digits first, then more groups, then a longer decimal
\* part, and gives up a choice only when the rest cannot match
first_shape(shapes) ==
    CHOOSE m \in shapes :
        \A n \in shapes :
            \/ m.d > n.d
            \/ m.d = n.d /\ m.g > n.g
            \/ m.d = n.d /\ m.g = n.g /\ m.f >= n.f

NoNumber == <<>>

\* NUMBER_PATTERN.search(t) with NUMBER_PATTERN
\* \b\d{1,3}(?:,\d{3})*(?:\.\d+)?\b: the text of the leftmost match
number_search(t) ==
    LET ok(p) == {m \in number_shapes(t, p) :
                     word_boundary(t, p) /\ word_boundary(t, shape_end(p, m))}
        starts == {p \in 0..(Len(t) - 1) : ok(p) # {}}
    IN  IF starts = {} THEN NoNumber
        ELSE LET p == CHOOSE p \in starts : \A q \in starts : p <= q
             IN  SubSeq(t, p + 1, shape_end(p, first_shape(ok(p))))

\* re.match(r'^\d{1,3}(?:,\d{3})+$', value)
thousands_match(value) ==
    \E m \in number_shapes(value, 0) :
        m.g >= 1 /\ m.f = 0 /\ shape_end(0, m) = Len(value)

Contains(t, c) == \E i \in DOMAIN t : t[i] = c

\* KeywordMatcher.find_keywords: keywords outermost, then pages, then lines;
\* the keyword of a match is the stripped keyword
find_keywords(pages, keywords) ==
    Concat([k \in DOMAIN keywords |->
        LET keyword_normalized == strip(Chars(keywords[k]))
        IN  Concat([p \in DOMAIN pages |->
                Concat([l \in DOMAIN pages[p].lines |->
                    IF pattern_search(keyword_normalized, pages[p].lines[l])
                           # NoMatch
                    THEN <<[keyword |-> keyword_normalized,
                            page_number |-> pages[p].page_number,
                            line_number |-> l,
                            line_text |-> pages[p].lines[l]]>>
                    ELSE <<>>])])])

NoWarning == <<>>
NotFoundValue == <<"Not found">>

\* ExtractionMatch(...): __post_init__ gives a not_found match the value
\* 'Not found'
ExtractionMatch(keyword, value, page_number, line_number, status, warning) ==
    [keyword |-> keyword,
     value |-> IF status = "not_found" /\ value \notin {<<>>, NotFoundValue}
               THEN NotFoundValue ELSE value,
     page_number |-> page_number, line_number |-> line_number,
     status |-> status, warning |-> warning]

\* f"Number '{value}' interpreted as thousands separator. If this is
\* incorrect, please review the document."
ThousandsWarning(value) ==
    <<"Number '">> \o value
    \o <<"' interpreted as ", "thousands separator",
         ". If this is incorrect, please review the document.">>

\* f"Number '{value}' has unusual format and may be ambiguous"
UnusualWarning(value) ==
    <<"Number '">> \o value
    \o <<"' has ", "unusual format", " and may be ambiguous">>

\* extract_numbers that classifies every number as found
extract_number_never_ambiguous(kw_match) ==
    LET match_obj == pattern_search(str_lower(kw_match.keyword),
                                    kw_match.line_text)
        text_after_keyword ==
            SubSeq(kw_match.line_text, match_obj.end + 1,
                   Len(kw_match.line_text))
        value == number_search(text_after_keyword)
    IN  IF match_obj = NoMatch \/ value = NoNumber
        THEN ExtractionMatch(kw_match.keyword, NotFoundValue,
                             kw_match.page_number, kw_match.line_number,
                             "not_found", NoWarning)
        ELSE ExtractionMatch(kw_match.keyword, value, kw_match.page_number,
                             kw_match.line_number, "found", NoWarning)

\* the body of the loop of NumberExtractor.extract_numbers
extract_number(kw_match) ==
    LET match_obj == pattern_search(str_lower(kw_match.keyword),
                                    kw_match.line_text)
        text_after_keyword ==
            SubSeq(kw_match.line_text, match_obj.end + 1,
                   Len(kw_match.line_text))
        value == number_search(text_after_keyword)
    IN  IF match_obj = NoMatch \/ value = NoNumber
        THEN ExtractionMatch(kw_match.keyword, NotFoundValue,
                             kw_match.page_number, kw_match.line_number,
                             "not_found", NoWarning)
        ELSE IF Contains(value, ",") /\ ~Contains(value, ".")
        THEN ExtractionMatch(kw_match.keyword, value, kw_match.page_number,
                             kw_match.line_number, "ambiguous",
                             IF thousands_match(value)
                             THEN ThousandsWarning(value)
                             ELSE UnusualWarning(value))
        ELSE ExtractionMatch(kw_match.keyword, value, kw_match.page_number,
                             kw_match.line_number, "found", NoWarning)

extract_numbers(keyword_matches) ==
    [i \in DOMAIN keyword_matches |-> extract_number(keyword_matches[i])]

\* a synthesized entry with an empty value
NotFoundMatch_no_value(keyword) ==
    ExtractionMatch(Chars(keyword), <<>>, 1, NoLine, "not_found", NoWarning)

\* the synthesized entry of a keyword with no match
NotFoundMatch(keyword) ==
    ExtractionMatch(Chars(keyword), NotFoundValue, 1, NoLine, "not_found",
                    NoWarning)

\* PersonalInformation.empty(), as far as the engine reads it
EmptyPersonalInfo == [first_name |-> None, id_number_prefix |-> None]

\* what extract_personal_info returns when it does not raise
PersonalInfos ==
    {[first_name |-> "Ivan", id_number_prefix |-> "1234"],
     [first_name |-> None, id_number_prefix |-> "1234"],
     EmptyPersonalInfo}

\* the warnings of the matches that have one, in the order of the matches
match_warnings(matches) ==
    Concat([i \in DOMAIN matches |->
        IF matches[i].warning # NoWarning THEN <<matches[i].warning>>
        ELSE <<>>])

\* the warnings for the fields the personal information lacks
personal_info_warnings(personal_info) ==
    (IF personal_info.first_name = None
     THEN <<<<"First name not found in document">>>> ELSE <<>>)
    \o (IF personal_info.id_number_prefix = None
        THEN <<<<"ID number not found in document">>>> ELSE <<>>)

\* stage 2 adding the extracted matches first and the not-found entries
\* after them
matches_in_keyword_order_found_first(keywords, extraction_matches) ==
    extraction_matches
    \o Concat([k \in DOMAIN keywords |->
           IF \E i \in DOMAIN extraction_matches :
                  extraction_matches[i].keyword = Chars(keywords[k])
           THEN <<>> ELSE <<NotFoundMatch(keywords[k])>>])

\* the matches of stage 2: for each input keyword in order, the matches
\* recorded under that keyword, or a not-found entry
matches_in_keyword_order(keywords, extraction_matches) ==
    LET matches_by_keyword(keyword) ==
            SelectSeqBy(extraction_matches,
                {m \in {extraction_matches[i] : i \in DOMAIN extraction_matches} :
                     m.keyword = Chars(keyword)})
    IN  Concat([k \in DOMAIN keywords |->
            IF matches_by_keyword(keywords[k]) # <<>>
            THEN matches_by_keyword(keywords[k])
            ELSE <<NotFoundMatch(keywords[k])>>])

\* extract in which a failure of keyword matching ends the extraction
extract_abort_on_failure(pages, keywords, fails, personal_info) ==
    LET keyword_matches ==
            IF "keyword_matching" \in fails THEN <<>>
            ELSE find_keywords(pages, keywords)
        matches ==
            IF fails \cap {"keyword_matching", "number_extraction"} # {}
            THEN <<>>
            ELSE matches_in_keyword_order(keywords,
                                          extract_numbers(keyword_matches))
        aborted == "keyword_matching" \in fails
    IN  [kind |-> "single",
         matches |-> matches,
         personal_info |->
             IF aborted \/ "personal_info" \in fails THEN EmptyPersonalInfo
             ELSE personal_info,
         errors |->
             IF aborted THEN <<"keyword_matching_error">>
             ELSE (IF "number_extraction" \in fails
                   THEN <<"number_extraction_error">> ELSE <<>>)
                  \o (IF "personal_info" \in fails
                      THEN <<"personal_info_extraction_error">> ELSE <<>>),
         warnings |->
             match_warnings(matches)
             \o (IF aborted \/ "personal_info" \in fails THEN <<>>
                 ELSE personal_info_warnings(personal_info))]

\* ExtractionEngine.extract; fails is the set of stages that raise
\* ("keyword_matching", "number_extraction", "personal_info") and
\* personal_info what extract_personal_info returns when it does not
extract(pages, keywords, fails, personal_info) ==
    LET keyword_matches ==
            IF "keyword_matching" \in fails THEN <<>>
            ELSE find_keywords(pages, keywords)
        matches ==
            IF "number_extraction" \in fails THEN <<>>
            ELSE matches_in_keyword_order(keywords,
                                          extract_numbers(keyword_matches))
    IN  [kind |-> "single",
         matches |-> matches,
         personal_info |->
             IF "personal_info" \in fails THEN EmptyPersonalInfo
             ELSE personal_info,
         errors |->
             (IF "keyword_matching" \in fails
              THEN <<"keyword_matching_error">> ELSE <<>>)
             \o (IF "number_extraction" \in fails
                 THEN <<"number_extraction_error">> ELSE <<>>)
             \o (IF "personal_info" \in fails
                 THEN <<"personal_info_extraction_error">> ELSE <<>>),
         warnings |->
             match_warnings(matches)
             \o (IF "personal_info" \in fails THEN <<>>
                 ELSE personal_info_warnings(personal_info))]

\* the lines of the documents of the model
Line_Salary_5_USD ==
    <<"S", "a", "l", "a", "r", "y", " ", "5", " ", "U", "S", "D">>
Line_Age_42 == <<"A", "g", "e", " ", "4", "2">>
Line_Salary_1c234_USD ==
    <<"S", "a", "l", "a", "r", "y", " ", "1", ",", "2", "3", "4", " ",
      "U", "S", "D">>
Line_Age_only == <<"A", "g", "e">>
Line_Salary_1c23_USD ==
    <<"S", "a", "l", "a", "r", "y", " ", "1", ",", "2", "3", " ",
      "U", "S", "D">>
Line_Salary_1234p50 ==
    <<"S", "a", "l", "a", "r", "y", " ", "1", "2", "3", "4", ".", "5", "0">>
Line_No_salary_12_5 ==
    <<"n", "o", " ", "s", "a", "l", "a", "r", "y", " ", "1", "2", ".", "5">>

Page(page_number, lines) == [page_number |-> page_number, lines |-> lines]

\* the pages a parser hands to the engine in a job
PageInputs ==
    {<<Page(1, <<Line_Salary_5_USD, Line_Age_42>>)>>,
     <<Page(1, <<Line_Salary_5_USD>>)>>}

\* page sets for the engine called on its own
EnginePages ==
    PageInputs
    \cup {<<Page(1, <<Line_Salary_1c234_USD, Line_Age_only>>)>>,
          <<Page(1, <<Line_Salary_5_USD>>), Page(2, <<Line_Salary_1c234_USD>>)>>,
          <<Page(1, <<Line_Salary_1c23_USD, Line_Age_42>>)>>,
          <<Page(1, <<Line_Age_only, Line_Salary_1234p50>>)>>,
          <<Page(1, <<Line_Age_42>>), Page(2, <<Line_No_salary_12_5>>)>>,
          <<Page(1, <<Line_Age_only>>), Page(2, <<Line_Salary_1c234_USD>>)>>,
          <<>>}

\* keyword lists as the state machine holds them: stripped, not empty, no
\* two equal up to case
EngineKeywordLists ==
    {<<"Salary">>, <<"Salary", "Age">>, <<"Age", "Salary">>,
     <<"Bonus", "salary">>, <<"salary", "Bonus", "Age">>}

\* the stages of extract that raise in a call
EngineFailures ==
    SUBSET {"keyword_matching", "number_extraction", "personal_info"}

StageFailures ==
    {{}, {"keyword_matching"}, {"number_extraction"}, {"personal_info"}}

\* the results handed to complete_processing: what the engine returns for a
\* keyword list, and batch results with and without processed documents
KeywordLists == {<<"Salary", "Age">>}

BatchInputs ==
    {[kind |-> "batch", results |-> <<>>, warnings |-> <<"skipped">>],
     [kind |-> "batch", results |-> <<"r1">>, warnings |-> <<"skipped">>],
     [kind |-> "batch", results |-> <<"r1">>, warnings |-> <<>>]}

\* the stage failures of the jobs of the model
JobFailures == {{}, {"number_extraction"}}

\* what extract_personal_info returns for the documents of a job
JobPersonalInfo == [first_name |-> "Ivan", id_number_prefix |-> "1234"]

ResultInputs ==
    {extract(p, k, f, JobPersonalInfo) :
         p \in PageInputs, k \in KeywordLists, f \in StageFailures}
    \cup BatchInputs

(***************************************************************************)
(* extractors/personal_info_extractor.py.  A page text is the sequence of  *)
(* its characters; a character outside ASCII is written as its code point  *)
(* ("U+0418" is the Cyrillic capital I).                                   *)
(***************************************************************************)
\* [A-Za-z]
LatinLetters ==
    {"A", "B", "C", "D", "E", "F", "G", "H", "I", "J", "K", "L", "M", "N",
     "O", "P", "Q", "R", "S", "T", "U", "V", "W", "X", "Y", "Z", "a", "b",
     "c", "d", "e", "f", "g", "h", "i", "j", "k", "l", "m", "n", "o", "p",
     "q", "r", "s", "t", "u", "v", "w", "x", "y", "z"}

\* [\u0410-\u044F], the range the patterns write as A-Ya a-ya in Cyrillic
CyrillicLetters ==
    {"U+0410", "U+0411", "U+0412", "U+0413", "U+0414", "U+0415", "U+0416",
     "U+0417", "U+0418", "U+0419", "U+041A", "U+041B", "U+041C", "U+041D",
     "U+041E", "U+041F", "U+0420", "U+0421", "U+0422", "U+0423", "U+0424",
     "U+0425", "U+0426", "U+0427", "U+0428", "U+0429", "U+042A", "U+042B",
     "U+042C", "U+042D", "U+042E", "U+042F", "U+0430", "U+0431", "U+0432",
     "U+0433", "U+0434", "U+0435", "U+0436", "U+0437", "U+0438", "U+0439",
     "U+043A", "U+043B", "U+043C", "U+043D", "U+043E", "U+043F", "U+0440",
     "U+0441", "U+0442", "U+0443", "U+0444", "U+0445", "U+0446", "U+0447",
     "U+0448", "U+0449", "U+044A", "U+044B", "U+044C", "U+044D", "U+044E",
     "U+044F"}

\* \s
Whitespace == {" ", "\n", "\t"}

\* the class of the name patterns: Cyrillic and Latin letters, \s and -
NameChars == CyrillicLetters \cup LatinLetters \cup Whitespace \cup {"-"}

\* the labels of FIRST_NAME_PATTERNS, pattern by pattern
FIRST_NAME_PATTERNS ==
    <<<<<<"F", "i", "r", "s", "t", " ", "N", "a", "m", "e">>,
       <<"U+0418", "U+043C", "U+0435">>,
       <<"N", "a", "m", "e">>,
       <<"U+0418", "U+043C", "U+044F">>>>,
     <<<<"G", "i", "v", "e", "n", " ", "N", "a", "m", "e">>,
       <<"U+041B", "U+0438", "U+0447", "U+043D", "U+043E", "U+0435", " ",
         "U+0438", "U+043C", "U+044F">>>>>>

\* the labels of LAST_NAME_PATTERNS
LAST_NAME_PATTERNS ==
    <<<<<<"L", "a", "s", "t", " ", "N", "a", "m", "e">>,
       <<"U+0424", "U+0430", "U+043C", "U+0438", "U+043B", "U+0438", "U+044F">>,
       <<"S", "u", "r", "n", "a", "m", "e">>,
       <<"U+0424", "U+0430", "U+043C", "U+0438", "U+043B", "U+0456", "U+044F">>>>,
     <<<<"F", "a", "m", "i", "l", "y", " ", "N", "a", "m", "e">>>>>>

\* the labels of MIDDLE_NAME_PATTERNS
MIDDLE_NAME_PATTERNS ==
    <<<<<<"M", "i", "d", "d", "l", "e", " ", "N", "a", "m", "e">>,
       <<"U+041E", "U+0442", "U+0447", "U+0435", "U+0441", "U+0442", "U+0432",
         "U+043E">>,
       <<"P", "a", "t", "r", "o", "n", "y", "m", "i", "c">>,
       <<"U+041F", "U+043E", " ", "U+0431", "U+0430", "U+0442", "U+044C",
         "U+043A", "U+043E", "U+0432", "U+0456">>>>>>

\* the labels of ID_PATTERNS
ID_PATTERNS ==
    <<<<<<"I", "D">>,
       <<"U+0415", "U+0413", "U+041D">>,
       <<"I", "D", " ", "N", "u", "m", "b", "e", "r">>,
       <<"U+041D", "U+043E", "U+043C", "U+0435", "U+0440">>>>,
     <<<<"I", "d", "e", "n", "t", "i", "f", "i", "c", "a", "t", "i", "o", "n">>,
       <<"I", "d", "e", "n", "t", "i", "f", "i", "e", "r">>>>>>

\* None for a text-valued field, None for the age, None for the page
NoText == <<None>>
NoAge == -1
NoPage == 0

\* the literal occurs in t right after position p
MatchesAt(t, p, literal) ==
    /\ p + Len(literal) <= Len(t)
    /\ \A i \in 1..Len(literal) : t[p + i] = literal[i]

RECURSIVE RunLength(_, _, _)
\* the number of characters of the class that follow position p of t
RunLength(t, p, class) ==
    IF p < Len(t) /\ t[p + 1] \in class THEN 1 + RunLength(t, p + 1, class)
    ELSE 0

\* the matches of (?:label|label|...): followed by a rest that matches, as
\* <<position, alternative>>; rest_ok[e] tells whether the rest of the
\* pattern matches at position e, right after the colon
label_hits(labels, t, rest_ok) ==
    {h \in (0..Len(t)) \X DOMAIN labels :
        /\ MatchesAt(t, h[1], labels[h[2]] \o <<":">>)
        /\ rest_ok[h[1] + Len(labels[h[2]]) + 1]}

\* the match pattern.search finds: the leftmost position and, there, the
\* first alternative; the value is the position right after the colon
first_hit(labels, hits) ==
    LET h == CHOOSE h \in hits :
                 \A g \in hits :
                     h[1] < g[1] \/ (h[1] = g[1] /\ h[2] <= g[2])
    IN  h[1] + Len(labels[h[2]]) + 1

\* group(1) of (?:labels):\s*([class]+) searched in t, NoText without a
\* match.  \s* takes all the whitespace after the colon and the group the
\* run of class characters behind it; the class contains \s, so when no
\* letter follows the whitespace, \s* gives its last character to the group
name_search(labels, t) ==
    LET rest_ok == [e \in 0..(Len(t) + 1) |->
                       e < Len(t) /\ t[e + 1] \in NameChars]
        hits == label_hits(labels, t, rest_ok)
    IN  IF hits = {} THEN NoText
        ELSE LET e == first_hit(labels, hits)
                 ws == RunLength(t, e, Whitespace)
                 n == RunLength(t, e + ws, NameChars)
             IN  IF n > 0 THEN SubSeq(t, e + ws + 1, e + ws + n)
                 ELSE SubSeq(t, e + ws, e + ws)

\* group(1) of (?:labels):\s*(\d{4})\d* searched in t
id_search(labels, t) ==
    LET digits_at(e) == e + RunLength(t, e, Whitespace)
        rest_ok == [e \in 0..(Len(t) + 1) |->
                       e <= Len(t) /\ RunLength(t, digits_at(e), Digits) >= 4]
        hits == label_hits(labels, t, rest_ok)
    IN  IF hits = {} THEN NoText
        ELSE LET e == first_hit(labels, hits)
             IN  SubSeq(t, digits_at(e) + 1, digits_at(e) + 4)

\* str.strip() of the re module's \s characters
RECURSIVE strip_ws(_)
strip_ws(t) ==
    IF t # <<>> /\ Head(t) \in Whitespace THEN strip_ws(Tail(t))
    ELSE IF t # <<>> /\ t[Len(t)] \in Whitespace
    THEN strip_ws(SubSeq(t, 1, Len(t) - 1))
    ELSE t

\* the loop body of _extract_first_name and its siblings: the stripped
\* group when the pattern matched
stripped_group(found) == IF found # NoText THEN strip_ws(found) ELSE NoText

RECURSIVE extract_name(_, _)
\* _extract_first_name / _extract_last_name / _extract_middle_name on one
\* page: the stripped group of the first pattern that matches
extract_name(patterns, page_text) ==
    IF patterns = <<>> THEN NoText
    ELSE IF stripped_group(name_search(Head(patterns), page_text)) # NoText
    THEN stripped_group(name_search(Head(patterns), page_text))
    ELSE extract_name(Tail(patterns), page_text)

RECURSIVE extract_id_number(_, _)
\* _extract_id_number on one page
extract_id_number(patterns, page_text) ==
    IF patterns = <<>> THEN NoText
    ELSE IF id_search(Head(patterns), page_text) # NoText
    THEN id_search(Head(patterns), page_text)
    ELSE extract_id_number(Tail(patterns), page_text)

\* int() of a run of digits
DigitValue(c) ==
    CASE c = "0" -> 0 [] c = "1" -> 1 [] c = "2" -> 2 [] c = "3" -> 3
      [] c = "4" -> 4 [] c = "5" -> 5 [] c = "6" -> 6 [] c = "7" -> 7
      [] c = "8" -> 8 [] c = "9" -> 9

RECURSIVE int(_)
int(digits) ==
    IF digits = <<>> THEN 0
    ELSE 10 * int(SubSeq(digits, 1, Len(digits) - 1))
         + DigitValue(digits[Len(digits)])

\* _extract_age on one page: AGE_PATTERN ,\s*(\d{1,3})(?:\s|$) at its
\* leftmost match, kept when it is in 0..150
extract_age(page_text) ==
    LET digits_at(p) == p + 1 + RunLength(page_text, p + 1, Whitespace)
        run(p) == RunLength(page_text, digits_at(p), Digits)
        hits == {p \in 0..(Len(page_text) - 1) :
                    /\ page_text[p + 1] = ","
                    /\ run(p) \in 1..3
                    /\ \/ digits_at(p) + run(p) = Len(page_text)
                       \/ page_text[digits_at(p) + run(p) + 1] \in Whitespace}
    IN  IF hits = {} THEN NoAge
        ELSE LET p == CHOOSE p \in hits : \A q \in hits : p <= q
                 age == int(SubSeq(page_text, digits_at(p) + 1,
                                   digits_at(p) + run(p)))
             IN  IF age <= 150 THEN age ELSE NoAge

\* the truth value Python gives a text field and an age
Truthy(text) == text # NoText /\ text # <<>>
TruthyAge(age) == age # NoAge /\ age # 0

\* f"{...or ''}": the text, or the empty string for None
OrEmpty(text) == IF text = NoText THEN <<>> ELSE text

\* _detect_character_set
detect_character_set(text) ==
    LET has_cyrillic == \E i \in DOMAIN text : text[i] \in CyrillicLetters
        has_latin == \E i \in DOMAIN text : text[i] \in LatinLetters
    IN  IF has_cyrillic /\ has_latin THEN "mixed"
        ELSE IF has_cyrillic THEN "cyrillic"
        ELSE IF has_latin THEN "latin"
        ELSE "unknown"

\* the character set of the names of a record
names_character_set(first_name, middle_name, last_name) ==
    detect_character_set(OrEmpty(first_name) \o <<" ">> \o OrEmpty(middle_name)
                         \o <<" ">> \o OrEmpty(last_name))

\* PersonalInformation.__post_init__: is_complete from the three fields
all_present(info) ==
    /\ info.first_name # NoText
    /\ info.last_name # NoText
    /\ info.id_number_prefix # NoText

\* PersonalInformation.empty()
PersonalInformation_empty ==
    [first_name |-> NoText, last_name |-> NoText, middle_name |-> NoText,
     id_number_prefix |-> NoText, age |-> NoAge, character_set |-> "unknown",
     extraction_page |-> NoPage, is_complete |-> FALSE]

\* PersonalInformation(...) as _extract_from_page builds it, with the
\* is_complete of __post_init__
page_info(page_number, first_name, last_name, middle_name, id_prefix, age) ==
    [first_name |-> first_name, last_name |-> last_name,
     middle_name |-> middle_name, id_number_prefix |-> id_prefix,
     age |-> age,
     character_set |->
         IF Truthy(first_name) \/ Truthy(last_name) \/ Truthy(middle_name)
         THEN names_character_set(first_name, middle_name, last_name)
         ELSE "unknown",
     extraction_page |->
         IF Truthy(first_name) \/ Truthy(last_name) \/ Truthy(id_prefix)
         THEN page_number ELSE NoPage,
     is_complete |->
         first_name # NoText /\ last_name # NoText /\ id_prefix # NoText]

\* _extract_from_page
extract_from_page(page) ==
    page_info(page.page_number,
              extract_name(FIRST_NAME_PATTERNS, page.text),
              extract_name(LAST_NAME_PATTERNS, page.text),
              extract_name(MIDDLE_NAME_PATTERNS, page.text),
              extract_id_number(ID_PATTERNS, page.text),
              extract_age(page.text))

\* 'if not result.first_name:' ... result.extraction_page = fn_page
fill_first_name(result, page_number, first_name) ==
    IF result.first_name = NoText /\ Truthy(first_name)
    THEN [result EXCEPT !.first_name = first_name,
                        !.extraction_page = page_number]
    ELSE result

\* 'if not result.last_name:' ... 'if result.extraction_page is None:'
fill_last_name(result, page_number, last_name) ==
    IF result.last_name = NoText /\ Truthy(last_name)
    THEN [result EXCEPT !.last_name = last_name,
                        !.extraction_page =
                            IF @ = NoPage THEN page_number ELSE @]
    ELSE result

fill_middle_name(result, page_number, middle_name) ==
    IF result.middle_name = NoText /\ Truthy(middle_name)
    THEN [result EXCEPT !.middle_name = middle_name,
                        !.extraction_page =
                            IF @ = NoPage THEN page_number ELSE @]
    ELSE result

fill_id_number(result, page_number, id_prefix) ==
    IF result.id_number_prefix = NoText /\ Truthy(id_prefix)
    THEN [result EXCEPT !.id_number_prefix = id_prefix,
                        !.extraction_page =
                            IF @ = NoPage THEN page_number ELSE @]
    ELSE result

fill_age(result, page_number, age) ==
    IF result.age = NoAge /\ TruthyAge(age)
    THEN [result EXCEPT !.age = age,
                        !.extraction_page =
                            IF @ = NoPage THEN page_number ELSE @]
    ELSE result

\* one iteration of the loop over pages[1:], up to the check that ends it:
\* the assignments to result.first_name, last_name, middle_name,
\* id_number_prefix and age in this order, each with its update of
\* extraction_page
scan_page(result, page) ==
    fill_age(
        fill_id_number(
            fill_middle_name(
                fill_last_name(
                    fill_first_name(
                        result, page.page_number,
                        extract_name(FIRST_NAME_PATTERNS, page.text)),
                    page.page_number,
                    extract_name(LAST_NAME_PATTERNS, page.text)),
                page.page_number,
                extract_name(MIDDLE_NAME_PATTERNS, page.text)),
            page.page_number,
            extract_id_number(ID_PATTERNS, page.text)),
        page.page_number,
        extract_age(page.text))

\* the end of extract_personal_info: the character set of the names and
\* the is_complete flag
finish_personal_info(result) ==
    [result EXCEPT
        !.character_set =
            IF Truthy(result.first_name) \/ Truthy(result.last_name)
               \/ Truthy(result.middle_name)
            THEN names_character_set(result.first_name, result.middle_name,
                                     result.last_name)
            ELSE @,
        !.is_complete = all_present(result)]

\* the page texts of the model
Text_Ivan_Petrov_ID ==
    <<"F", "i", "r", "s", "t", " ", "N", "a", "m", "e", ":", " ", "U+0418",
      "U+0432", "U+0430", "U+043D", "\n", "L", "a", "s", "t", " ", "N",
      "a", "m", "e", ":", " ", "U+041F", "U+0435", "U+0442", "U+0440",
      "U+043E", "U+0432", "\n", "I", "D", ":", " ", "1", "2", "3", "4",
      "5", "6", "7">>
Text_Surname_Petrov ==
    <<"S", "u", "r", "n", "a", "m", "e", ":", " ", "P", "e", "t", "r", "o",
      "v">>
Text_First_Ivan ==
    <<"F", "i", "r", "s", "t", " ", "N", "a", "m", "e", ":", " ", "I", "v",
      "a", "n">>
Text_ID_First_Ann ==
    <<"I", "D", ":", " ", "9", "8", "7", "6", "\n", "F", "i", "r", "s",
      "t", " ", "N", "a", "m", "e", ":", " ", "A", "n", "n">>
Text_Patronymic_Age ==
    <<"P", "a", "t", "r", "o", "n", "y", "m", "i", "c", ":", " ", "L", "e",
      "e", ",", " ", "3", "3">>
Text_Salary ==
    <<"S", "a", "l", "a", "r", "y", " ", "5", " ", "U", "S", "D">>

PersonalTexts ==
    {Text_Ivan_Petrov_ID, Text_Surname_Petrov, Text_First_Ivan,
     Text_ID_First_Ann, Text_Patronymic_Age, Text_Salary}

MaxPages == 3

\* the page lists handed to extract_personal_info: pages numbered from 1,
\* each with one of the texts
PersonalPages ==
    UNION {{[p \in 1..n |-> [page_number |-> p, text |-> texts[p]]] :
               texts \in [1..n -> PersonalTexts]} : n \in 0..MaxPages}

(***************************************************************************)
(* controllers/state_manager.py                                            *)
(***************************************************************************)
\* the texts handed to fail_processing / add_error
REJECTED == "Extraction already in progress"
ErrorTexts == {REJECTED, "Failed to parse document"}

\* _notify_observers: one snapshot (a deep copy) per registered observer
notify_observers(s) == [i \in DOMAIN observers |-> s]

\* the values of a call: a keyword text or error message, a document list,
\* extraction results, or the messages check_messages handed over
NoArg ==
    [text |-> None, documents |-> <<>>, results |-> NoResults,
     messages |-> <<>>, pages |-> <<>>, keywords |-> <<>>, fails |-> {},
     personal_info |-> EmptyPersonalInfo, next_page |-> 0, raised |-> {}]
TextArg(text) == [NoArg EXCEPT !.text = text]
DocumentsArg(documents) == [NoArg EXCEPT !.documents = documents]
ResultsArg(results) == [NoArg EXCEPT !.results = results]
MessagesArg(messages) == [NoArg EXCEPT !.messages = messages]
EngineArg(pages, keywords, fails, personal_info) ==
    [NoArg EXCEPT !.pages = pages, !.keywords = keywords, !.fails = fails,
                  !.personal_info = personal_info]

\* the record of a call: name, argument, return value, snapshots handed to
\* observers
Call(op, arg, ret, notified) ==
    [op |-> op, arg |-> arg, ret |-> ret, notified |-> notified]

TypeOK ==
    /\ state.processing_status \in ProcessingStatus
    /\ state.is_processing \in BOOLEAN
    /\ Len(state.error_messages) <= MaxErrors + MaxPending
    /\ is_running \in BOOLEAN
    /\ ui_pc \in {"idle", "poll_drain", "poll_check", "notify", "observer"}
    /\ timers \in 0..MaxTimers

Init ==
    /\ state = InitialState
    /\ observers = <<"_on_state_changed">>
    /\ last = Call("__init__", NoArg, None, <<>>)
    /\ is_running = FALSE
    /\ message_queue = <<>>
    /\ workers = <<>>
    /\ ui_pc = "idle"
    /\ timers = 0
    /\ ghost = InitialState

coordinator == <<is_running, message_queue, workers, ui_pc, timers>>

\* a mutation method of StateManager: under the lock, apply the method of
\* ApplicationState, then _notify_observers
Mutate(op, arg, new_state, new_ghost) ==
    /\ ui_pc = "idle"
    /\ Len(new_state.error_messages) > Len(state.error_messages)
           => Len(new_state.error_messages) <= MaxErrors
    /\ state' = new_state
    /\ ghost' = new_ghost
    /\ last' = Call(op, arg, None, notify_observers(new_state))
    /\ UNCHANGED <<observers, coordinator>>

SM_set_document(document) ==
    Mutate("set_document", DocumentsArg(<<document>>),
           set_document(state, document),
           set_document(ghost, document))

\* update_state(lambda s: s.set_documents(documents))
SM_set_documents(documents) ==
    Mutate("set_documents", DocumentsArg(documents),
           set_documents(state, documents),
           set_documents(ghost, documents))

SM_add_keyword(text) ==
    Mutate("add_keyword", TextArg(text),
           add_keyword(state, Keyword_from_text(text)),
           add_keyword(ghost, Keyword_from_text(text)))

SM_remove_keyword(text) ==
    Mutate("remove_keyword", TextArg(text), remove_keyword(state, text),
           remove_keyword(ghost, text))

SM_clear_keywords ==
    Mutate("clear_keywords", NoArg, clear_keywords(state),
           clear_keywords(ghost))

\* StateManager.start_processing: the early return skips the notification
\* start_processing without the can_start_extraction guard
StartProcessing_unguarded(s) == start_processing(s)

StartProcessing(s) == IF can_start_extraction(s) THEN start_processing(s) ELSE s

SM_start_processing ==
    /\ ui_pc = "idle"
    /\ state' = StartProcessing(state)
    /\ ghost' = StartProcessing(ghost)
    /\ last' = IF can_start_extraction(state)
               THEN Call("start_processing", NoArg, "True",
                         notify_observers(state'))
               ELSE Call("start_processing", NoArg, "False", <<>>)
    /\ UNCHANGED <<observers, coordinator>>

SM_complete_processing(results) ==
    Mutate("complete_processing", ResultsArg(results),
           complete_processing(state, results),
           complete_processing(ghost, results))

SM_fail_processing(error_message) ==
    Mutate("fail_processing", TextArg(error_message),
           fail_processing(state, error_message),
           fail_processing(ghost, error_message))

SM_reset == Mutate("reset", NoArg, reset(state), reset(ghost))

SM_add_error(error_message) ==
    Mutate("add_error", TextArg(error_message),
           [state EXCEPT !.error_messages = Append(@, error_message)],
           [ghost EXCEPT !.error_messages = Append(@, error_message)])

SM_clear_errors ==
    Mutate("clear_errors", NoArg, [state EXCEPT !.error_messages = <<>>],
           [ghost EXCEPT !.error_messages = <<>>])

\* StateManager.can_start_extraction: a read under the lock
SM_can_start_extraction ==
    /\ ui_pc = "idle"
    /\ last' = Call("can_start_extraction", NoArg,
                   PyBool(can_start_extraction(state)), <<>>)
    /\ UNCHANGED <<state, ghost, observers, coordinator>>

NextSM ==
    \/ SM_can_start_extraction
    \/ \E d \in DocumentInputs : SM_set_document(d)
    \/ \E ds \in DocumentLists : SM_set_documents(ds)
    \/ \E t \in KeywordTexts : SM_add_keyword(t)
    \/ \E t \in KeywordTexts : SM_remove_keyword(t)
    \/ SM_clear_keywords
    \/ SM_start_processing
    \/ \E r \in ResultInputs : SM_complete_processing(r)
    \/ \E m \in ErrorTexts : SM_fail_processing(m)
    \/ SM_reset
    \/ \E m \in ErrorTexts : SM_add_error(m)
    \/ SM_clear_errors

SpecSM == Init /\ [][NextSM]_vars

(***************************************************************************)
(* Holders of objects outside the StateManager.  set_document and          *)
(* complete_processing store the object they are handed, so the caller's   *)
(* reference and the state's are the same object; get_state and            *)
(* _notify_observers hand out deep copies.                                 *)
(***************************************************************************)
\* Document.mark_invalid(error_message)
mark_invalid(document, error_message) ==
    [document EXCEPT !.is_valid = FALSE, !.error_message = error_message]

\* ExtractionResults.add_error(error_type, message)
add_error_to_results(results, error_type) ==
    [results EXCEPT !.errors = Append(@, error_type)]

\* the caller of set_document(document) calls document.mark_invalid(...) on
\* the Document it passed: the object is current_documents[0] of the state
Caller_mark_invalid ==
    /\ ui_pc = "idle"
    /\ last.op = "set_document"
    /\ state' = [state EXCEPT !.current_documents[1] =
                                  mark_invalid(@, "Corrupted file")]
    /\ ghost' = [ghost EXCEPT !.current_documents[1] =
                                  mark_invalid(@, "Corrupted file")]
    /\ last' = Call("Document.mark_invalid", last.arg, None, <<>>)
    /\ UNCHANGED <<observers, coordinator>>

\* the caller of complete_processing(results) calls results.add_error(...)
\* on the results it passed: the object is extraction_results of the state
Caller_add_error ==
    /\ ui_pc = "idle"
    /\ last.op = "complete_processing"
    /\ last.arg.results.kind = "single"
    /\ state' = [state EXCEPT !.extraction_results =
                                  add_error_to_results(@, "parsing_error")]
    /\ ghost' = [ghost EXCEPT !.extraction_results =
                                  add_error_to_results(@, "parsing_error")]
    /\ last' = Call("ExtractionResults.add_error", last.arg, None, <<>>)
    /\ UNCHANGED <<observers, coordinator>>

\* an observer calls mark_invalid on a document of the snapshot it was
\* handed: the snapshot is a deep copy made by _notify_observers
Observer_mark_invalid ==
    /\ ui_pc = "idle"
    /\ last.notified # <<>>
    /\ last.notified[1].current_documents # <<>>
    /\ last' = Call("snapshot.mark_invalid", last.arg, None,
                    [last.notified EXCEPT ![1].current_documents[1] =
                         mark_invalid(@, "Corrupted file")])
    /\ UNCHANGED <<state, ghost, observers, coordinator>>

NextShare ==
    \/ \E d \in DocumentInputs : SM_set_document(d)
    \/ \E t \in KeywordTexts : SM_add_keyword(t)
    \/ SM_start_processing
    \/ \E r \in ResultInputs : SM_complete_processing(r)
    \/ SM_reset
    \/ Caller_mark_invalid
    \/ Caller_add_error
    \/ Observer_mark_invalid

SpecShare == Init /\ [][NextShare]_vars

(***************************************************************************)
(* The engine called on its own: extract(pages, keywords, document).  The  *)
(* initial states hold the arguments of the call, the stages that raise    *)
(* in it and what extract_personal_info returns; the action applies        *)
(* extract to them.                                                        *)
(***************************************************************************)
InitEngine ==
    /\ state = InitialState
    /\ observers = <<"_on_state_changed">>
    /\ \E pages \in EnginePages, keywords \in EngineKeywordLists,
          fails \in EngineFailures, personal_info \in PersonalInfos :
           last = Call("call extract",
                       EngineArg(pages, keywords, fails, personal_info),
                       NoResults, <<>>)
    /\ is_running = FALSE
    /\ message_queue = <<>>
    /\ workers = <<>>
    /\ ui_pc = "idle"
    /\ timers = 0
    /\ ghost = InitialState

Engine_extract ==
    /\ last.op = "call extract"
    /\ last' = [last EXCEPT
                   !.op = "extract",
                   !.ret = extract(last.arg.pages, last.arg.keywords,
                                   last.arg.fails, last.arg.personal_info)]
    /\ UNCHANGED <<state, ghost, observers, coordinator>>

NextEngine == Engine_extract

SpecEngine == InitEngine /\ [][NextEngine]_vars

(***************************************************************************)
(* controllers/thread_coordinator.py                                       *)
(***************************************************************************)
ProgressMsg(message) ==
    [type |-> "progress", message |-> message, results |-> NoResults]
CompleteMsg(results) ==
    [type |-> "complete", message |-> None, results |-> results]
ErrorMsg(message) ==
    [type |-> "error", message |-> message, results |-> NoResults]

\* the coordinator's fields as one value
tc == [is_running |-> is_running, message_queue |-> message_queue,
       workers |-> workers]

\* threading.Thread(target=self._worker_wrapper, args=(extraction_func, args))
\* for _perform_extraction(document, keywords): a thread about to run it
NewWorker(keywords) ==
    [pc |-> "start", keywords |-> keywords, results |-> NoResults,
     error |-> None]

\* start_extraction that starts a worker whether or not one is running
start_extraction_unguarded(c, keywords) ==
    [is_running |-> TRUE, message_queue |-> <<>>,
     workers |-> Append(c.workers, NewWorker(keywords))]

start_extraction(c, keywords) ==
    IF c.is_running
    THEN [c EXCEPT !.message_queue = Append(@, ErrorMsg(REJECTED))]
    ELSE [is_running |-> TRUE, message_queue |-> <<>>,
          workers |-> Append(c.workers, NewWorker(keywords))]

\* s without its i-th element
RemoveAt(s, i) == [j \in 1..(Len(s) - 1) |-> IF j < i THEN s[j] ELSE s[j + 1]]

\* a step of worker thread i: its new record, and the message it puts
WorkerStep(i, worker, msgs) ==
    /\ workers' = [workers EXCEPT ![i] = worker]
    /\ message_queue' = message_queue \o msgs
    /\ UNCHANGED <<state, ghost, observers, last, is_running, ui_pc, timers>>

\* _perform_extraction: reporter.report('Parsing document...')
W_report_parsing(i) ==
    /\ workers[i].pc = "start"
    /\ WorkerStep(i, [workers[i] EXCEPT !.pc = "parsing"],
                  <<ProgressMsg("Parsing document...")>>)

\* _perform_extraction: parser.parse fails and raises, or succeeds and
\* reporter.report('Extracting data...')
W_parse(i, success) ==
    /\ workers[i].pc = "parsing"
    /\ IF success
       THEN WorkerStep(i, [workers[i] EXCEPT !.pc = "extracting"],
                       <<ProgressMsg("Extracting data...")>>)
       ELSE WorkerStep(i, [workers[i] EXCEPT !.pc = "raised",
                               !.error = "Failed to parse document"], <<>>)

\* _perform_extraction: extraction_engine.extract(pages, keyword_texts) and
\* reporter.report('Generating output...')
W_extract(i, pages, fails) ==
    /\ workers[i].pc = "extracting"
    /\ WorkerStep(i, [workers[i] EXCEPT !.pc = "generating",
                          !.results = extract(pages, workers[i].keywords,
                                              fails, JobPersonalInfo)],
                  <<ProgressMsg("Generating output...")>>)

\* _perform_extraction: output_generator.generate fails and raises, or
\* succeeds, reporter.report('Complete!') and return results
W_generate(i, success) ==
    /\ workers[i].pc = "generating"
    /\ IF success
       THEN WorkerStep(i, [workers[i] EXCEPT !.pc = "returned"],
                       <<ProgressMsg("Complete!")>>)
       ELSE WorkerStep(i, [workers[i] EXCEPT !.pc = "raised",
                               !.results = NoResults,
                               !.error = "Failed to generate output"], <<>>)

\* a wrapper that reports completion whatever the function did
TerminalMsg_always_complete(worker) == CompleteMsg(worker.results)

\* the terminal message of _worker_wrapper: send_complete(result) after the
\* function returned, send_error(str(e)) after it raised
TerminalMsg(worker) ==
    IF worker.pc = "returned" THEN CompleteMsg(worker.results)
    ELSE ErrorMsg(worker.error)

\* _worker_wrapper: self.send_complete(result) / self.send_error(str(e))
W_send(i) ==
    /\ workers[i].pc \in {"returned", "raised"}
    /\ WorkerStep(i, [workers[i] EXCEPT !.pc = "sent"],
                  <<TerminalMsg(workers[i])>>)

\* _worker_wrapper: finally: self._is_running = False; the thread ends
W_finally(i) ==
    /\ workers[i].pc = "sent"
    /\ is_running' = FALSE
    /\ workers' = RemoveAt(workers, i)
    /\ UNCHANGED <<state, ghost, observers, last, message_queue, ui_pc, timers>>

Worker ==
    \E i \in DOMAIN workers :
        \/ W_report_parsing(i)
        \/ \E success \in BOOLEAN : W_parse(i, success)
        \/ \E pages \in PageInputs, fails \in JobFailures :
               W_extract(i, pages, fails)
        \/ \E success \in BOOLEAN : W_generate(i, success)
        \/ W_send(i)
        \/ W_finally(i)

(***************************************************************************)
(* controllers/app_controller.py: the poll loop                            *)
(***************************************************************************)
RECURSIVE Dispatch(_, _, _)
\* the loop of _poll_worker_messages over the drained messages; skip is the
\* set of error texts that are not dispatched (empty for the program)
Dispatch(s, messages, skip) ==
    IF messages = <<>> THEN s
    ELSE LET msg == Head(messages)
             next == IF msg.type = "complete"
                     THEN complete_processing(s, msg.results)
                     ELSE IF msg.type = "error" /\ msg.message \notin skip
                          THEN fail_processing(s, msg.message)
                          ELSE s
         IN  Dispatch(next, Tail(messages), skip)

RECURSIVE Notifications(_, _)
\* the snapshots the observers receive during that loop
Notifications(s, messages) ==
    IF messages = <<>> THEN <<>>
    ELSE LET msg == Head(messages)
         IN  IF msg.type = "progress" THEN Notifications(s, Tail(messages))
             ELSE notify_observers(Dispatch(s, <<msg>>, {}))
                  \o Notifications(Dispatch(s, <<msg>>, {}), Tail(messages))

RECURSIVE check_messages_lifo(_)
\* check_messages that hands over the newest message first
check_messages_lifo(queue) ==
    IF queue = <<>> THEN <<>>
    ELSE check_messages_lifo(Tail(queue)) \o <<Head(queue)>>

RECURSIVE check_messages(_)
\* ThreadCoordinator.check_messages: get_nowait() until the queue is empty,
\* each message appended to the list returned
check_messages(queue) ==
    IF queue = <<>> THEN <<>>
    ELSE <<Head(queue)>> \o check_messages(Tail(queue))

\* _poll_worker_messages, first half: check_messages() empties the queue and
\* the messages are dispatched in the order of the list
PollMessages ==
    /\ state' = Dispatch(state, check_messages(message_queue), {})
    /\ ghost' = Dispatch(ghost, check_messages(message_queue), {REJECTED})
    /\ last' = Call("_poll_worker_messages",
                    MessagesArg(check_messages(message_queue)), None,
                    Notifications(state, check_messages(message_queue)))
    /\ message_queue' = <<>>
    /\ ui_pc' = "poll_check"
    /\ UNCHANGED <<observers, is_running, workers>>

\* the timer scheduled by _poll_callback(100, ...) fires
PollTimer ==
    /\ ui_pc = "idle"
    /\ timers > 0
    /\ timers' = timers - 1
    /\ PollMessages

\* _poll_worker_messages called by on_extract_clicked
PollDirect ==
    /\ ui_pc = "poll_drain"
    /\ UNCHANGED timers
    /\ PollMessages

\* _poll_worker_messages, second half: poll again while the coordinator runs
PollCheck ==
    /\ ui_pc = "poll_check"
    /\ timers' = IF is_running THEN timers + 1 ELSE timers
    /\ ui_pc' = "idle"
    /\ UNCHANGED <<state, ghost, observers, last, is_running, message_queue,
                   workers>>

(***************************************************************************)
(* controllers/app_controller.py: the handlers of the user's actions       *)
(***************************************************************************)
CANNOT_START == "Cannot start extraction. Please select a file and add keywords."
LOG_ERROR == "Cannot create log file"

\* a handler that returns after _show_error(message), the state untouched
ShowError(op, message) ==
    /\ ui_pc = "idle"
    /\ last' = Call(op, NoArg, message, <<>>)
    /\ UNCHANGED <<state, ghost, observers, coordinator>>

\* valid: every validation of the selected file passes
on_file_selected(valid) ==
    IF valid
    THEN Mutate("on_file_selected", DocumentsArg(<<ValidDocument>>),
                set_document(state, ValidDocument),
                set_document(ghost, ValidDocument))
    ELSE ShowError("on_file_selected", "Invalid document")

on_keyword_added(text) ==
    IF \E i \in DOMAIN state.active_keywords :
           state.active_keywords[i].normalized = Lower(text)
    THEN ShowError("on_keyword_added", "Keyword already added")
    ELSE Mutate("on_keyword_added", TextArg(text),
                add_keyword(state, Keyword_from_text(text)),
                add_keyword(ghost, Keyword_from_text(text)))

on_keyword_removed(text) ==
    Mutate("on_keyword_removed", TextArg(text), remove_keyword(state, text),
           remove_keyword(ghost, text))

on_keywords_cleared ==
    Mutate("on_keywords_cleared", NoArg, clear_keywords(state),
           clear_keywords(ghost))

\* [kw.text for kw in keywords]
keyword_texts(keywords) == [i \in DOMAIN keywords |-> keywords[i].text]

\* the coordinator's fields become those of c
SetCoordinator(c) ==
    /\ is_running' = c.is_running
    /\ message_queue' = c.message_queue
    /\ workers' = c.workers

\* logger_fails: ProcessingLogger.start_logging raises
on_extract_clicked(logger_fails) ==
    /\ timers < MaxTimers
    /\ IF ~can_start_extraction(state)
       THEN ShowError("on_extract_clicked", CANNOT_START)
       ELSE /\ ui_pc = "idle"
            /\ ghost' = StartProcessing(ghost)
            /\ UNCHANGED <<observers, timers>>
            /\ IF logger_fails
               THEN /\ state' = fail_processing(start_processing(state),
                                                LOG_ERROR)
                    /\ last' = Call("on_extract_clicked", NoArg, LOG_ERROR,
                                    notify_observers(start_processing(state))
                                    \o notify_observers(state'))
                    /\ UNCHANGED <<is_running, message_queue, workers, ui_pc>>
               ELSE /\ state' = start_processing(state)
                    /\ last' = Call("on_extract_clicked", NoArg, None,
                                    notify_observers(state'))
                    /\ SetCoordinator(start_extraction(
                           tc, keyword_texts(state.active_keywords)))
                    /\ ui_pc' = "poll_drain"

Handlers ==
    \/ \E valid \in BOOLEAN : on_file_selected(valid)
    \/ \E text \in KeywordTexts : on_keyword_added(text)
    \/ \E text \in KeywordTexts : on_keyword_removed(text)
    \/ on_keywords_cleared
    \/ \E logger_fails \in BOOLEAN : on_extract_clicked(logger_fails)

Next ==
    \/ Handlers
    \/ PollDirect
    \/ PollTimer
    \/ PollCheck
    \/ Worker

Spec == Init /\ [][Next]_vars

(***************************************************************************)
(* The coordinator and the state manager called directly from the          *)
(* interactive thread: start_extraction at any time, each call followed by *)
(* _poll_worker_messages as in on_extract_clicked.                         *)
(***************************************************************************)
\* error messages recorded, queued, or that a live worker may still send
ErrorsPending ==
    Len(state.error_messages)
    + Cardinality({i \in DOMAIN message_queue :
                       message_queue[i].type = "error"})
    + Len(workers)

API_start_extraction(keywords) ==
    /\ ui_pc = "idle"
    /\ timers < MaxTimers
    /\ ErrorsPending < MaxPending
    /\ SetCoordinator(start_extraction(tc, keywords))
    /\ last' = Call("start_extraction", NoArg, PyBool(~is_running), <<>>)
    /\ ui_pc' = "poll_drain"
    /\ UNCHANGED <<state, ghost, observers, timers>>

NextAPI ==
    \/ SM_set_document(ValidDocument)
    \/ SM_add_keyword("Salary")
    \/ SM_start_processing
    \/ \E keywords \in KeywordLists : API_start_extraction(keywords)
    \/ PollDirect
    \/ PollTimer
    \/ PollCheck
    \/ Worker

SpecAPI == Init /\ [][NextAPI]_vars

(***************************************************************************)
(* Claims about the state machine, checked under SpecSM.                   *)
(***************************************************************************)
\* the documents and keywords of s allow an extraction
DocsAndKeywordsOK(s) ==
    /\ Len(s.current_documents) >= 1
    /\ \A i \in 1..Len(s.current_documents) : s.current_documents[i].is_valid
    /\ Len(s.active_keywords) >= 1

\* C4: can_start_extraction() returns true if and only if there is at least
\* one document, every document is valid, there is at least one active
\* keyword, is_processing is false and the status is one of ready, complete,
\* error, partial_success.
C4_CanStartIff ==
    last.op = "can_start_extraction" =>
        (last.ret = "True" <=>
            /\ DocsAndKeywordsOK(state)
            /\ state.is_processing = FALSE
            /\ state.processing_status \in
                   {"ready", "complete", "error", "partial_success"})

C4_Witness ==
    /\ last.op = "can_start_extraction"
    /\ last.ret = "True"
    /\ state.processing_status = "partial_success"

\* C5: can_start_extraction is false whenever is_processing is true, and in
\* the state right after complete_processing or fail_processing it is true
\* provided a document is set, all documents are valid and a keyword is active.
C5_FalseWhileProcessingTrueAfter ==
    /\ state.is_processing => ~can_start_extraction(state)
    /\ (last.op \in {"complete_processing", "fail_processing"}
        /\ DocsAndKeywordsOK(state)) => can_start_extraction(state)

C5_Witness ==
    /\ last.op = "complete_processing"
    /\ DocsAndKeywordsOK(state)
    /\ can_start_extraction(state)

\* C6: StateManager.start_processing takes effect only when
\* can_start_extraction holds: then it returns true and sets is_processing,
\* status processing, no error messages and no results; otherwise it returns
\* false, leaves the state unchanged and notifies no observer.
C6_StartProcessingGuarded ==
    [][last'.op = "start_processing" =>
        IF /\ DocsAndKeywordsOK(state)
           /\ ~state.is_processing
           /\ state.processing_status \in {READY, COMPLETE, ERROR, PARTIAL_SUCCESS}
        THEN /\ last'.ret = "True"
             /\ state' = [state EXCEPT !.is_processing = TRUE,
                                       !.processing_status = PROCESSING,
                                       !.error_messages = <<>>,
                                       !.extraction_results = NoResults]
        ELSE /\ last'.ret = "False"
             /\ state' = state
             /\ last'.notified = <<>>]_vars

C6_Witness ==
    /\ last.op = "start_processing"
    /\ last.ret = "False"
    /\ DocsAndKeywordsOK(state)
    /\ state.is_processing

\* the number of matches of a result with status found
SuccessCount(results) ==
    Cardinality({i \in DOMAIN results.matches : results.matches[i].status = "found"})

\* C7: complete_processing(results) with a single-document result clears
\* is_processing, stores the results, and sets the status to error when the
\* result has an error and no successful match, to partial_success when it
\* has an error and a successful match, and to complete when it has no error.
C7_CompleteProcessingStatus ==
    (last.op = "complete_processing" /\ last.arg.results.kind = "single") =>
        LET r == last.arg.results
        IN  /\ state.is_processing = FALSE
            /\ state.extraction_results = r
            /\ state.processing_status =
                   IF Len(r.errors) >= 1 /\ SuccessCount(r) = 0 THEN "error"
                   ELSE IF Len(r.errors) >= 1 THEN "partial_success"
                   ELSE "complete"

C7_Witness ==
    /\ last.op = "complete_processing"
    /\ state.extraction_results # NoResults
    /\ state.extraction_results.kind = "single"
    /\ Len(state.extraction_results.errors) >= 1
    /\ SuccessCount(state.extraction_results) >= 1
    /\ state.processing_status = "partial_success"

\* a single-document result in which some keywords were found and others not
SomeFoundSomeNot(results) ==
    /\ results.kind = "single"
    /\ \E i \in DOMAIN results.matches : results.matches[i].status = "found"
    /\ \E i \in DOMAIN results.matches : results.matches[i].status = "not_found"

\* C8 (as claimed): a result in which some keywords were found and others
\* were not always leads complete_processing to partial_success.
C8_AlwaysPartialSuccess ==
    (last.op = "complete_processing" /\ SomeFoundSomeNot(state.extraction_results))
        => state.processing_status = "partial_success"

\* C8 (amended): such a result never leads complete_processing to error: the
\* status is partial_success when the result records an error and complete
\* when it records none.
C8_PartialOnlyWithErrors ==
    (last.op = "complete_processing" /\ SomeFoundSomeNot(state.extraction_results))
        => state.processing_status =
               IF Len(state.extraction_results.errors) >= 1
               THEN "partial_success" ELSE "complete"

C8_Witness ==
    /\ last.op = "complete_processing"
    /\ SomeFoundSomeNot(state.extraction_results)
    /\ Len(state.extraction_results.errors) = 0
    /\ state.processing_status = "complete"

RECURSIVE MessagesOfInvalid(_)
\* the error messages of the invalid documents of a list, in list order
MessagesOfInvalid(documents) ==
    IF documents = <<>> THEN <<>>
    ELSE (IF ~Head(documents).is_valid /\ Head(documents).error_message # None
          THEN <<Head(documents).error_message>> ELSE <<>>)
         \o MessagesOfInvalid(Tail(documents))

NoDuplicateKeywords(s) ==
    \A i, j \in DOMAIN s.active_keywords :
        s.active_keywords[i].normalized = s.active_keywords[j].normalized
            => i = j

\* an active keyword of s has the normalized form of text
IsDuplicate(s, text) ==
    \E i \in DOMAIN s.active_keywords :
        s.active_keywords[i].normalized = Lower(text)

\* C11: after every StateManager call active_keywords holds no two keywords
\* with the same normalized form, and add_keyword of a keyword whose
\* normalized form is present leaves active_keywords unchanged.
C11_KeywordsUnique ==
    [][/\ NoDuplicateKeywords(state')
       /\ (last'.op = "add_keyword" /\ IsDuplicate(state, last'.arg.text))
              => state'.active_keywords = state.active_keywords]_vars

C11_Witness ==
    /\ last.op = "add_keyword"
    /\ last.arg.text = "salary"
    /\ state.active_keywords = <<Keyword_from_text("Salary")>>

\* C12: add_keyword of a keyword that is no duplicate sets the status to
\* ready exactly when at least one document is set, all documents are valid
\* and the status was file_selected; otherwise the status is unchanged.
C12_AddKeywordStatus ==
    [][(last'.op = "add_keyword" /\ ~IsDuplicate(state, last'.arg.text))
       => /\ state'.active_keywords =
                 Append(state.active_keywords,
                        Keyword_from_text(last'.arg.text))
          /\ state'.processing_status =
                 IF /\ Len(state.current_documents) > 0
                    /\ AllValid(state.current_documents)
                    /\ state.processing_status = FILE_SELECTED
                 THEN READY
                 ELSE state.processing_status]_vars

C12_Witness ==
    /\ last.op = "add_keyword"
    /\ state.processing_status = READY
    /\ Len(state.active_keywords) = 1
    /\ state.active_keywords[1].text = last.arg.text

\* C13: after remove_keyword or clear_keywords, when no active keyword
\* remains the status is file_selected if a document is set and idle if
\* none is; when remove_keyword leaves a keyword the status is unchanged.
C13_RemoveClearStatus ==
    [][(last'.op \in {"remove_keyword", "clear_keywords"})
       => state'.processing_status =
              IF state'.active_keywords = <<>>
              THEN IF Len(state'.current_documents) > 0 THEN FILE_SELECTED
                   ELSE IDLE
              ELSE state.processing_status]_vars

C13_Witness ==
    /\ last.op = "remove_keyword"
    /\ state.active_keywords = <<>>
    /\ Len(state.current_documents) > 0
    /\ state.processing_status = FILE_SELECTED

(***************************************************************************)
(* Claims about the coordinator, the worker and the poll loop.             *)
(***************************************************************************)
TerminalStatuses == {COMPLETE, ERROR, PARTIAL_SUCCESS}

\* the texts of the exceptions _perform_extraction raises
JobErrors == {"Failed to parse document", "Failed to generate output"}

\* a terminal message of a worker: complete, or the error of a raised exception
IsJobTerminal(msg) ==
    \/ msg.type = "complete"
    \/ msg.type = "error" /\ msg.message \in JobErrors

\* _poll_worker_messages is running or a timer will run it
PollPending == ui_pc # "idle" \/ timers > 0

\* a job's terminal message waits in the queue while the state is processing,
\* the worker has ended and no poll is running or scheduled
Stranded ==
    /\ state.is_processing
    /\ \E i \in DOMAIN message_queue : IsJobTerminal(message_queue[i])
    /\ workers = <<>>
    /\ ~PollPending

\* once stranded, every step of the program leaves the message stranded
StrandedForever == [][Stranded => Stranded']_vars

\* C1: the terminal message of a job started by on_extract_clicked is drained
\* by _poll_worker_messages: while the state is processing and the message is
\* in the queue, a poll is running or scheduled (so that under fair scheduling
\* it is dispatched and the state leaves processing).
C1_TerminalMessageIsPolled ==
    (/\ state.is_processing
     /\ \E i \in DOMAIN message_queue : IsJobTerminal(message_queue[i]))
    => PollPending

\* the worker thread is inside the extraction function
Executing(worker) ==
    worker.pc \in {"start", "parsing", "extracting", "generating"}

ExecutingCount == Cardinality({i \in DOMAIN workers : Executing(workers[i])})

\* C2: whatever start_extraction calls the interactive thread makes and however
\* the worker's steps interleave with them, at most one worker is executing the
\* extraction function, and a step that launches a worker starts from a
\* coordinator that is not running and has no worker.
C2_SingleFlight ==
    [][/\ ExecutingCount' <= 1
       /\ Len(workers') > Len(workers) => ~is_running /\ workers = <<>>]_vars

C2_Witness ==
    /\ last.op = "start_extraction"
    /\ last.ret = "False"
    /\ ExecutingCount = 1
    /\ \E i \in DOMAIN message_queue : message_queue[i] = ErrorMsg(REJECTED)

\* C3: a start_extraction call rejected while a worker runs leaves the job's
\* outcome alone: whenever the poll loop dispatches a job's terminal message,
\* the ApplicationState it reaches is the one reached had the rejected call's
\* message never existed (ghost).
C3_RejectedCallLeavesOutcome ==
    [][(/\ ui_pc' = "poll_check"
        /\ ui_pc # "poll_check"
        /\ \E i \in DOMAIN message_queue : IsJobTerminal(message_queue[i]))
       => state' = ghost']_vars

\* C9: an error message of a job never sits in the queue with no poll running
\* or scheduled, so that it reaches fail_processing, which leaves
\* is_processing = FALSE, status error and the message last in error_messages.
C9_JobErrorReachesState ==
    /\ \A i \in DOMAIN message_queue :
           message_queue[i].type = "error" => PollPending
    /\ (last.op = "_poll_worker_messages" /\ ui_pc = "poll_check"
        /\ Len(last.notified) > 0
        /\ last.notified[Len(last.notified)].processing_status = ERROR)
       => LET errs == state.error_messages
          IN  /\ ~state.is_processing
              /\ errs # <<>>
              /\ errs[Len(errs)] \in JobErrors \cup {REJECTED}

\* a step in which _poll_worker_messages drains the queue
IsPollStep == ui_pc' = "poll_check" /\ ui_pc # "poll_check"

\* no progress message is behind a job's terminal message in the queue, and
\* while a worker is inside the extraction function no terminal message of
\* a job is in the queue
ProgressBeforeTerminal ==
    /\ \A i, j \in DOMAIN message_queue :
           (i < j /\ IsJobTerminal(message_queue[i]))
               => message_queue[j].type # "progress"
    /\ ExecutingCount > 0
           => \A i \in DOMAIN message_queue : ~IsJobTerminal(message_queue[i])

\* C14: check_messages hands the interactive thread the queued messages in
\* the order they were enqueued, and the queue never holds a progress message
\* behind a job's terminal message, nor a terminal message while the job's
\* function is still running: every progress message of a job is delivered
\* before its terminal message.
C14_FifoProgressFirst ==
    [][/\ IsPollStep => last'.arg.messages = message_queue
       /\ ProgressBeforeTerminal']_vars

C14_Witness ==
    /\ last.op = "_poll_worker_messages"
    /\ Len(last.arg.messages) >= 3
    /\ last.arg.messages[1].type = "progress"
    /\ last.arg.messages[2].type = "progress"
    /\ IsJobTerminal(last.arg.messages[Len(last.arg.messages)])

(***************************************************************************)
(* A mutation method of StateManager step by step: 'with self._lock:', the *)
(* ApplicationState method, then _notify_observers calling the observers   *)
(* one after the other.  ui_pc is the position of the interactive thread:  *)
(* "notify" inside _notify_observers between two callbacks, "observer"     *)
(* inside a callback.  workers holds the threads other than the            *)
(* interactive one that are calling get_state.                             *)
(***************************************************************************)
MaxObservers == 2
MaxThreads == 1

\* the holder of StateManager._lock: the 'with self._lock:' block of a
\* mutation method spans the ApplicationState call and _notify_observers
lock_owner == IF ui_pc \in {"notify", "observer"} THEN "interactive" ELSE None

\* add_observer(callback): appended unless already registered
N_add_observer(callback) ==
    /\ ui_pc = "idle"
    /\ Len(observers) < MaxObservers
    /\ callback \notin {observers[i] : i \in DOMAIN observers}
    /\ observers' = Append(observers, callback)
    /\ last' = Call("add_observer", TextArg(callback), None, <<>>)
    /\ UNCHANGED <<state, ghost, coordinator>>

\* a mutation method up to the first callback: the lock is taken, the
\* ApplicationState method applied and _notify_observers entered
N_call(op, arg, new_state, new_ghost) ==
    /\ ui_pc = "idle"
    /\ Len(new_state.error_messages) > Len(state.error_messages)
           => Len(new_state.error_messages) <= MaxErrors
    /\ state' = new_state
    /\ ghost' = new_ghost
    /\ last' = Call(op, arg, None, <<>>)
    /\ ui_pc' = "notify"
    /\ UNCHANGED <<observers, is_running, message_queue, workers, timers>>

\* _notify_observers: observer(state_copy) is called for the next observer
N_observer_called ==
    /\ ui_pc = "notify"
    /\ Len(last.notified) < Len(observers)
    /\ last' = [last EXCEPT !.notified = Append(@, state)]
    /\ ui_pc' = "observer"
    /\ UNCHANGED <<state, ghost, observers, is_running, message_queue,
                   workers, timers>>

\* a notification that an exception of a callback ends
N_observer_ended_propagates(raises) ==
    /\ ui_pc = "observer"
    /\ last' = IF raises
               THEN [last EXCEPT !.arg.raised = @ \cup {Len(last.notified)}]
               ELSE last
    /\ ui_pc' = IF raises THEN "idle" ELSE "notify"
    /\ UNCHANGED <<state, ghost, observers, is_running, message_queue,
                   workers, timers>>

\* _notify_observers: the callback returns, or raises and the exception is
\* caught and printed; the loop goes on
N_observer_ended(raises) ==
    /\ ui_pc = "observer"
    /\ last' = IF raises
               THEN [last EXCEPT !.arg.raised = @ \cup {Len(last.notified)}]
               ELSE last
    /\ ui_pc' = "notify"
    /\ UNCHANGED <<state, ghost, observers, is_running, message_queue,
                   workers, timers>>

\* the callback calls get_state: the lock is an RLock and the interactive
\* thread holds it, so the call goes through
N_observer_get_state ==
    /\ ui_pc = "observer"
    /\ lock_owner \in {None, "interactive"}
    /\ last.ret = None
    /\ last' = [last EXCEPT !.ret = "get_state"]
    /\ UNCHANGED <<state, ghost, observers, coordinator>>

\* the mutation method returns after the last callback; the lock is
\* released
N_return ==
    /\ ui_pc = "notify"
    /\ Len(last.notified) = Len(observers)
    /\ ui_pc' = "idle"
    /\ UNCHANGED <<state, ghost, observers, last, is_running, message_queue,
                   workers, timers>>

\* a thread other than the interactive one calls get_state and reaches
\* 'with self._lock:'
T_call_get_state ==
    /\ Len(workers) < MaxThreads
    /\ workers' = Append(workers, [NewWorker(<<>>) EXCEPT !.pc = "get_state"])
    /\ UNCHANGED <<state, ghost, observers, last, is_running, message_queue,
                   ui_pc, timers>>

\* the thread takes the lock, copies the state and returns; it waits while
\* another thread holds the lock
T_get_state(i) ==
    /\ workers[i].pc = "get_state"
    /\ lock_owner = None
    /\ workers' = RemoveAt(workers, i)
    /\ UNCHANGED <<state, ghost, observers, last, is_running, message_queue,
                   ui_pc, timers>>

NextNotify ==
    \/ N_add_observer("on_state_changed_2")
    \/ \E d \in DocumentInputs :
           N_call("set_document", DocumentsArg(<<d>>),
                  set_document(state, d), set_document(ghost, d))
    \/ \E t \in KeywordTexts :
           N_call("add_keyword", TextArg(t),
                  add_keyword(state, Keyword_from_text(t)),
                  add_keyword(ghost, Keyword_from_text(t)))
    \/ N_call("clear_keywords", NoArg, clear_keywords(state),
              clear_keywords(ghost))
    \/ N_observer_called
    \/ \E raises \in BOOLEAN : N_observer_ended(raises)
    \/ N_observer_get_state
    \/ N_return
    \/ T_call_get_state
    \/ \E i \in DOMAIN workers : T_get_state(i)

SpecNotify == Init /\ [][NextNotify]_vars

(***************************************************************************)
(* extract_personal_info called on its own.  The initial states hold the   *)
(* pages of the call; last.ret is the local variable result, last.op the   *)
(* position in the function and last.arg.next_page the index of the page   *)
(* the loop scans next.                                                    *)
(***************************************************************************)
PI_CALL == "call extract_personal_info"
PI_SCAN == "extract_personal_info: for page in pages[1:]"
PI_RETURNED == "extract_personal_info"

InitPersonal ==
    /\ state = InitialState
    /\ observers = <<"_on_state_changed">>
    /\ \E pages \in PersonalPages :
           last = Call(PI_CALL, [NoArg EXCEPT !.pages = pages],
                       PersonalInformation_empty, <<>>)
    /\ is_running = FALSE
    /\ message_queue = <<>>
    /\ workers = <<>>
    /\ ui_pc = "idle"
    /\ timers = 0
    /\ ghost = InitialState

\* the call record after the first page gave result: on to the loop when
\* the record is not complete and more pages follow, else the return
after_first_page(call, result) ==
    IF ~result.is_complete /\ Len(call.arg.pages) > 1
    THEN [call EXCEPT !.op = PI_SCAN, !.ret = result, !.arg.next_page = 2]
    ELSE [call EXCEPT !.op = PI_RETURNED,
                      !.ret = finish_personal_info(result)]

\* extract_personal_info up to the loop: empty() without pages, else the
\* record of the first page, returned when it is complete or the only page
PI_first_page ==
    /\ last.op = PI_CALL
    /\ last' =
           IF last.arg.pages = <<>>
           THEN [last EXCEPT !.op = PI_RETURNED,
                             !.ret = PersonalInformation_empty]
           ELSE after_first_page(last, extract_from_page(last.arg.pages[1]))
    /\ UNCHANGED <<state, ghost, observers, coordinator>>

\* the call record after an iteration of the loop gave result:
\* 'if result.is_complete: break', the next page, or the return
after_scan_page(call, result) ==
    IF result.is_complete \/ call.arg.next_page = Len(call.arg.pages)
    THEN [call EXCEPT !.op = PI_RETURNED,
                      !.ret = finish_personal_info(result)]
    ELSE [call EXCEPT !.ret = result, !.arg.next_page = @ + 1]

\* one iteration of the loop: the fields of the page, then
\* 'if result.is_complete: break'; after the loop the function returns
PI_scan_page ==
    /\ last.op = PI_SCAN
    /\ last' = after_scan_page(
                   last, scan_page(last.ret, last.arg.pages[last.arg.next_page]))
    /\ UNCHANGED <<state, ghost, observers, coordinator>>

NextPersonal == PI_first_page \/ PI_scan_page

SpecPersonal == InitPersonal /\ [][NextPersonal]_vars

(***************************************************************************)
(* Claims about sharing and notification                                   *)
(***************************************************************************)
\* the calls made on objects held outside the StateManager
ExternalOps ==
    {"Document.mark_invalid", "ExtractionResults.add_error",
     "snapshot.mark_invalid"}

\* C15: no object of the manager's state is shared with an external holder:
\* a step in which an external holder mutates an object it holds (one it
\* passed in, or a snapshot it was handed) leaves the manager's state as it
\* was.
C15_NoSharedObjects ==
    [][(last'.op \in ExternalOps /\ last' # last) => state' = state]_vars

\* the calls of StateManager
ManagerOps ==
    {"can_start_extraction", "set_document", "set_documents", "add_keyword",
     "remove_keyword", "clear_keywords", "start_processing",
     "complete_processing", "fail_processing", "reset", "add_error",
     "clear_errors"}

\* C16: a StateManager call that changes the state invokes every registered
\* observer exactly once with a snapshot equal to the state right after the
\* call, and a call that changes nothing invokes no observer.
C16_ObserversOncePerChange ==
    [][(last'.op \in ManagerOps /\ last' # last) =>
           last'.notified = IF state' # state
                            THEN [i \in DOMAIN observers |-> state']
                            ELSE <<>>]_vars

(***************************************************************************)
(* Claims about extract, under SpecEngine                                  *)
(***************************************************************************)
\* the lines of the pages the keyword matches, as <<page index, line>>
MatchedLines(pages, keyword) ==
    {pl \in UNION {{<<p, l>> : l \in DOMAIN pages[p].lines} : p \in DOMAIN pages} :
        pattern_search(strip(Chars(keyword)), pages[pl[1]].lines[pl[2]])
            # NoMatch}

\* every keyword of the call matches at most one line
AtMostOneLineEach ==
    \A k \in DOMAIN last.arg.keywords :
        Cardinality(MatchedLines(last.arg.pages, last.arg.keywords[k])) <= 1

\* extract returned and its number-extraction stage did not raise
Extracted == last.op = "extract" /\ "number_extraction" \notin last.arg.fails

MatchesOf(results, keyword) ==
    {i \in DOMAIN results.matches : results.matches[i].keyword = Chars(keyword)}

\* C18: a keyword that matches no line of any page has exactly one match in
\* the result of extract, with status not_found, value 'Not found' and page
\* number 1.
C18_NotFoundEntry ==
    Extracted =>
        \A k \in DOMAIN last.arg.keywords :
            MatchedLines(last.arg.pages, last.arg.keywords[k]) = {} =>
                /\ Cardinality(MatchesOf(last.ret, last.arg.keywords[k])) = 1
                /\ \A i \in MatchesOf(last.ret, last.arg.keywords[k]) :
                       /\ last.ret.matches[i].status = "not_found"
                       /\ last.ret.matches[i].value = NotFoundValue
                       /\ last.ret.matches[i].page_number = 1

C18_Witness ==
    /\ Extracted
    /\ last.arg.fails = {}
    /\ Len(last.arg.pages) = 2
    /\ \E k \in DOMAIN last.arg.keywords :
           /\ MatchedLines(last.arg.pages, last.arg.keywords[k]) = {}
           /\ last.ret.matches[k].value = NotFoundValue
           /\ last.ret.matches[k].page_number = 1
    /\ \E i \in DOMAIN last.ret.matches :
           last.ret.matches[i].page_number = 2

\* the error type extract records for a stage
StageError(stage) ==
    CASE stage = "keyword_matching" -> "keyword_matching_error"
      [] stage = "number_extraction" -> "number_extraction_error"
      [] stage = "personal_info" -> "personal_info_extraction_error"

\* C19: when a stage of extract raises, extract still returns results, they
\* record an error of that stage's type, and the later stages have run: after
\* a failure of keyword matching the result has a match for every keyword,
\* and after a failure of keyword matching or number extraction it has the
\* personal information that was extracted and the warnings for its missing
\* fields.
C19_StageFailureIsolated ==
    last.op = "extract" =>
        /\ last.ret.kind = "single"
        /\ \A stage \in last.arg.fails :
               \E i \in DOMAIN last.ret.errors :
                   last.ret.errors[i] = StageError(stage)
        /\ Len(last.ret.errors) = Cardinality(last.arg.fails)
        /\ "number_extraction" \notin last.arg.fails =>
               \A k \in DOMAIN last.arg.keywords :
                   MatchesOf(last.ret, last.arg.keywords[k]) # {}
        /\ "personal_info" \notin last.arg.fails =>
               /\ last.ret.personal_info = last.arg.personal_info
               /\ \A i \in DOMAIN personal_info_warnings(last.arg.personal_info) :
                      \E j \in DOMAIN last.ret.warnings :
                          last.ret.warnings[j]
                              = personal_info_warnings(last.arg.personal_info)[i]

C19_Witness ==
    /\ last.op = "extract"
    /\ last.arg.fails = {"keyword_matching"}
    /\ last.ret.errors = <<"keyword_matching_error">>
    /\ Len(last.ret.matches) = 2
    /\ last.ret.personal_info.first_name = None
    /\ last.ret.personal_info.id_number_prefix # None
    /\ last.ret.warnings = <<<<"First name not found in document">>>>

\* the numeric token a text starts with: its longest prefix of digits,
\* commas and decimal points
RECURSIVE NumericPrefix(_)
NumericPrefix(t) ==
    IF t # <<>> /\ Head(t) \in Digits \cup {",", "."}
    THEN <<Head(t)>> \o NumericPrefix(Tail(t))
    ELSE <<>>

\* the first numeric token of a text: the one at its first digit
RECURSIVE FirstNumericToken(_)
FirstNumericToken(t) ==
    IF t = <<>> THEN <<>>
    ELSE IF Head(t) \in Digits THEN NumericPrefix(t)
    ELSE FirstNumericToken(Tail(t))

\* the line a match was found on
LineOf(pages, m) ==
    LET p == CHOOSE p \in DOMAIN pages : pages[p].page_number = m.page_number
    IN  pages[p].lines[m.line_number]

\* the first numeric token after the keyword on the line of a match
TokenAfterKeyword(pages, m) ==
    LET line == LineOf(pages, m)
    IN  FirstNumericToken(
            SubSeq(line, pattern_search(m.keyword, line).end + 1, Len(line)))

\* one to three digits, then one or more groups of a comma and three digits
IsThousandsToken(token) ==
    \E d \in 1..3 :
        /\ Len(token) > d
        /\ (Len(token) - d) % 4 = 0
        /\ \A i \in DOMAIN token :
               IF i > d /\ (i - d) % 4 = 1 THEN token[i] = ","
               ELSE token[i] \in Digits

\* the warning contains the phrase
Mentions(warning, phrase) == \E i \in DOMAIN warning : warning[i] = phrase

\* C20: a match found on a line whose first numeric token after the keyword
\* is one to three digits followed by comma-separated groups of three digits,
\* without a decimal point, has that token as value, status ambiguous and a
\* warning that mentions 'thousands separator', and the warning is in the
\* warning list of the result.
C20_ThousandsAmbiguous ==
    Extracted =>
        \A i \in DOMAIN last.ret.matches :
            LET m == last.ret.matches[i]
            IN  (m.line_number # NoLine
                 /\ IsThousandsToken(TokenAfterKeyword(last.arg.pages, m))) =>
                    /\ m.value = TokenAfterKeyword(last.arg.pages, m)
                    /\ m.status = "ambiguous"
                    /\ Mentions(m.warning, "thousands separator")
                    /\ \E j \in DOMAIN last.ret.warnings :
                           last.ret.warnings[j] = m.warning

C20_Witness ==
    /\ Extracted
    /\ last.arg.keywords = <<"Salary">>
    /\ last.arg.pages = <<Page(1, <<Line_Salary_1c234_USD, Line_Age_only>>)>>
    /\ last.ret.matches[1].value = <<"1", ",", "2", "3", "4">>
    /\ last.ret.matches[1].status = "ambiguous"
    /\ Mentions(last.ret.warnings[1], "thousands separator")

\* the matches of the result that were found on a line
LineMatches == {i \in DOMAIN last.ret.matches :
                   last.ret.matches[i].line_number # NoLine}

\* C21: a match found on a line whose first numeric token after the keyword
\* has a comma, no decimal point and a grouping other than groups of three
\* digits (line 'Salary 1,23 USD') has that token as value, status ambiguous
\* and a warning that mentions 'unusual format'.
C21_UnusualFormatAmbiguous ==
    Extracted =>
        \A i \in LineMatches :
            LET m == last.ret.matches[i]
                token == TokenAfterKeyword(last.arg.pages, m)
            IN  (Contains(token, ",") /\ ~Contains(token, ".")
                 /\ ~IsThousandsToken(token)) =>
                    /\ m.value = token
                    /\ m.status = "ambiguous"
                    /\ Mentions(m.warning, "unusual format")

\* C22: the value of a match is the whole first number after the keyword on
\* its line, whatever its magnitude: when that number has no comma (line
\* 'Salary 1234.50') the match has it as value, status found and no warning.
C22_WholeFirstNumber ==
    Extracted =>
        \A i \in LineMatches :
            LET m == last.ret.matches[i]
                token == TokenAfterKeyword(last.arg.pages, m)
            IN  (token # <<>> /\ ~Contains(token, ",")) =>
                    /\ m.value = token
                    /\ m.status = "found"
                    /\ m.warning = NoWarning

(***************************************************************************)
(* Claims about extract_personal_info, under SpecPersonal                  *)
(***************************************************************************)
\* C23: for the single page 'First Name: Ivan / Last Name: Petrov /
\* ID: 1234567' (the names in Cyrillic), extract_personal_info returns the
\* first name and the last name as written on their lines, the ID prefix
\* 1234, character set cyrillic and is_complete true: the value of a
\* labelled field ends at the end of its line.
C23_FieldsEndAtLineEnd ==
    (last.op = PI_RETURNED
     /\ last.arg.pages = <<[page_number |-> 1, text |-> Text_Ivan_Petrov_ID]>>)
        => /\ last.ret.first_name = <<"U+0418", "U+0432", "U+0430", "U+043D">>
           /\ last.ret.last_name = <<"U+041F", "U+0435", "U+0442", "U+0440",
                                     "U+043E", "U+0432">>
           /\ last.ret.id_number_prefix = <<"1", "2", "3", "4">>
           /\ last.ret.character_set = "cyrillic"
           /\ last.ret.is_complete

\* C27: an iteration of the fallback scan overwrites no field that is
\* already set, leaves extraction_page as it is once it is set, and is never
\* run on a record that is already complete (first name, last name and ID
\* prefix present).
C27_FallbackScanFillsOnlyAbsent ==
    [][last.op = PI_SCAN =>
          /\ last.ret.first_name # NoText
                 => last'.ret.first_name = last.ret.first_name
          /\ last.ret.last_name # NoText
                 => last'.ret.last_name = last.ret.last_name
          /\ last.ret.middle_name # NoText
                 => last'.ret.middle_name = last.ret.middle_name
          /\ last.ret.id_number_prefix # NoText
                 => last'.ret.id_number_prefix = last.ret.id_number_prefix
          /\ last.ret.age # NoAge => last'.ret.age = last.ret.age
          /\ last.ret.extraction_page # NoPage
                 => last'.ret.extraction_page = last.ret.extraction_page
          /\ ~all_present(last.ret)]_vars

(***************************************************************************)
(* Claims about the worker wrapper, under SpecAPI                          *)
(***************************************************************************)
\* the messages a step appends to the queue
Enqueued ==
    IF Len(message_queue') > Len(message_queue)
       /\ SubSeq(message_queue', 1, Len(message_queue)) = message_queue
    THEN SubSeq(message_queue', Len(message_queue) + 1, Len(message_queue'))
    ELSE <<>>

\* C24: the wrapper of a job enqueues one terminal message, complete with
\* the return value when the function returned and error with the exception
\* text when it raised, and clears the running flag afterwards: a terminal
\* message is enqueued only by a worker whose function has just ended, alone
\* and with that content; a worker that has sent it does nothing but end; a
\* worker ends only after sending it, and the running flag is cleared
\* exactly when a worker ends.
C24_OneTerminalThenClear ==
    [][/\ \A k \in DOMAIN Enqueued :
              IsJobTerminal(Enqueued[k]) =>
                  /\ Len(Enqueued) = 1
                  /\ \E i \in DOMAIN workers :
                         /\ workers[i].pc \in {"returned", "raised"}
                         /\ workers' = [workers EXCEPT ![i].pc = "sent"]
                         /\ Enqueued[k] =
                                IF workers[i].pc = "returned"
                                THEN CompleteMsg(workers[i].results)
                                ELSE ErrorMsg(workers[i].error)
       /\ \A i \in DOMAIN workers :
              workers[i].pc = "sent" =>
                  \/ workers' = workers
                  \/ workers' = RemoveAt(workers, i) /\ ~is_running'
       /\ Len(workers') < Len(workers) =>
              \E i \in DOMAIN workers :
                  workers[i].pc = "sent" /\ workers' = RemoveAt(workers, i)
       /\ (is_running /\ ~is_running') => Len(workers') < Len(workers)]_vars

C24_Witness ==
    /\ ~is_running
    /\ workers = <<>>
    /\ \E i \in DOMAIN message_queue :
           message_queue[i].type = "error" /\ IsJobTerminal(message_queue[i])

(***************************************************************************)
(* Claims about notification, under SpecNotify                             *)
(***************************************************************************)
\* C25: while an observer callback is executing, the notifying thread does
\* not hold the lock of the StateManager.
C25_ObserverRunsUnlocked == ui_pc = "observer" => lock_owner = None

\* C26: when a callback raises during a notification, the notification goes
\* on with the next observer, the state stays as the mutation left it, and
\* the mutating call returns only after every registered observer has been
\* invoked with that state.
C26_ObserverFailureIsolated ==
    [][/\ ui_pc \in {"notify", "observer"} => state' = state
       /\ (ui_pc = "observer" /\ ui_pc' # "observer") => ui_pc' = "notify"
       /\ (ui_pc = "notify" /\ ui_pc' = "idle") =>
              /\ Len(last.notified) = Len(observers)
              /\ \A i \in DOMAIN last.notified : last.notified[i] = state]_vars

C26_Witness ==
    /\ ui_pc = "idle"
    /\ last.op = "add_keyword"
    /\ Len(observers) = 2
    /\ last.arg.raised = {1}
    /\ Len(last.notified) = 2
    /\ state.active_keywords # <<>>

(***************************************************************************)
(* Claims about the status of the state machine, under SpecSM              *)
(***************************************************************************)
\* C28: after any sequence of StateManager operations is_processing is true
\* exactly when the status is processing.
C28_ProcessingFlagIffStatus ==
    state.is_processing <=> state.processing_status = PROCESSING

\* C30: after any sequence of StateManager operations, when a document is
\* set, every document is valid, a keyword is active and is_processing is
\* false, the status is one of ready, complete, error, partial_success, so
\* can_start_extraction holds.
C30_NoDeadState ==
    (DocsAndKeywordsOK(state) /\ ~state.is_processing) =>
        /\ state.processing_status \in
               {READY, COMPLETE, ERROR, PARTIAL_SUCCESS}
        /\ can_start_extraction(state)

C30_Witness ==
    /\ last.op = "add_keyword"
    /\ DocsAndKeywordsOK(state)
    /\ ~state.is_processing
    /\ Len(state.active_keywords) = 1
    /\ state.processing_status = READY

(***************************************************************************)
(* Claims about the extract-and-poll flow, under Spec                      *)
(***************************************************************************)
\* C29: in every state of the extract-and-poll flow is_processing false
\* implies that the coordinator is not running, so that a start_extraction
\* that follows a successful start_processing in on_extract_clicked is never
\* rejected.
C29_IdleImpliesNotRunning ==
    /\ ~state.is_processing => ~is_running
    /\ (last.op = "on_extract_clicked" /\ last.ret = None) =>
           ErrorMsg(REJECTED) \notin
               {message_queue[i] : i \in DOMAIN message_queue}

====
